---- MODULE Spec2Model ----
(***************************************************************************)
(* A model of easy-i18n-js: the locale reconciliation engine               *)
(* (src/src/core/updater.ts) over JavaScript objects, and the extraction   *)
(* of translation keys (src/src/core/parser.ts, src/src/core/extractor.ts) *)
(* over syntax trees, files and directories.                               *)
(*                                                                         *)
(* A JavaScript string is a sequence of one-character strings.  A          *)
(* JavaScript value is a tagged record [t, v].  A JavaScript object is the *)
(* ordered list of its own enumerable properties, <<key, value>> pairs, in *)
(* the order OrdinaryOwnPropertyKeys gives them; every object inherits     *)
(* from Object.prototype.  Objects live in a heap and are passed by        *)
(* reference, so that a function's writes to its arguments are visible.    *)
(***************************************************************************)
EXTENDS Integers, Sequences, FiniteSets, TLC

(***************************************************************************)
(* Bounds of the model.                                                    *)
(***************************************************************************)
\* the largest number of entries of a source catalog drawn as an input
MaxSourceKeys == 2
\* the largest number of entries of a target catalog drawn as an input
MaxTargetKeys == 2
\* the number of entries of the large source catalog drawn as an input
LargeTotal == 40
\* the largest number of entries of a catalog written to a file
MaxFileKeys == 2

(***************************************************************************)
(* Generic helpers.                                                        *)
(***************************************************************************)
\* left fold of Op over the elements of seq, as a for loop over them (the
\* halves are evaluated one after the other, which keeps the evaluation flat)
RECURSIVE FoldRange(_, _, _, _, _)
FoldRange(Op(_, _), base, seq, lo, hi) ==
  IF lo > hi THEN base
  ELSE IF lo = hi THEN Op(base, seq[lo])
  ELSE LET mid == (lo + hi) \div 2
       IN  CHOOSE r \in {FoldRange(Op, left, seq, mid + 1, hi) :
                           left \in {FoldRange(Op, base, seq, lo, mid)}} : TRUE

Fold(Op(_, _), base, seq) == FoldRange(Op, base, seq, 1, Len(seq))

Range(seq) == {seq[i] : i \in 1..Len(seq)}

(***************************************************************************)
(* Strings.                                                                *)
(***************************************************************************)
\* the characters the model uses, in increasing UTF-16 code unit order
CodeUnitOrder ==
  <<"\n", " ", "\"", ",", "0", "1", "2", "3", "4", "5", "6", "7", "8", "9", ":",
    "A", "C", "H", "I", "M", "O", "P", "R", "S", "T", "[", "\\", "]", "_",
    "a", "b", "c", "d", "e", "g", "h", "i", "j", "l", "m", "n", "o", "p", "r",
    "s",
    "t", "u", "v", "x", "{", "}">>

CodeUnit(c) == CHOOSE i \in 1..Len(CodeUnitOrder) : CodeUnitOrder[i] = c

\* a < b for strings, by UTF-16 code units (the default order of Array.sort)
CodeUnitLess(a, b) ==
  \E i \in 1..(Len(a) + 1) :
     /\ i <= Len(b)
     /\ \A j \in 1..(i - 1) : a[j] = b[j]
     /\ (i = Len(a) + 1 \/ CodeUnit(a[i]) < CodeUnit(b[i]))

\* Array.prototype.sort() of a list of strings, default comparator
SortDefault(list) ==
  LET Insert(sorted, x) ==
        LET n == Cardinality({i \in 1..Len(sorted) : ~CodeUnitLess(x, sorted[i])})
        IN  SubSeq(sorted, 1, n) \o <<x>> \o SubSeq(sorted, n + 1, Len(sorted))
  IN  Fold(Insert, <<>>, list)

(***************************************************************************)
(* JavaScript values and objects.                                          *)
(***************************************************************************)
Str(chars) == [t |-> "string", v |-> chars]
Num(n) == [t |-> "number", v |-> n]
ObjV(o) == [t |-> "object", v |-> o]
\* a built-in function, such as the one Object.prototype.constructor holds
NativeFunction == [t |-> "function", v |-> <<>>]
Undefined == [t |-> "undefined", v |-> <<>>]

K_proto == <<"_", "_", "p", "r", "o", "t", "o", "_", "_">>
K_constructor == <<"c", "o", "n", "s", "t", "r", "u", "c", "t", "o", "r">>

\* the property names every object inherits from Object.prototype (those in
\* the model's alphabet); none of them is enumerable
ObjectPrototypeKeys == {K_constructor, K_proto}

Digits == {"0", "1", "2", "3", "4", "5", "6", "7", "8", "9"}
DigitValue(c) == CodeUnit(c) - CodeUnit("0")

\* a canonical array index: such keys come first, in numeric order
IsArrayIndex(k) ==
  /\ Len(k) \in 1..9
  /\ \A i \in 1..Len(k) : k[i] \in Digits
  /\ (Len(k) > 1 => k[1] # "0")

IndexValue(k) ==
  LET Step(acc, c) == 10 * acc + DigitValue(c) IN Fold(Step, 0, k)

OwnKeys(o) == [i \in 1..Len(o) |-> o[i][1]]
HasOwn(o, k) == \E i \in 1..Len(o) : o[i][1] = k
OwnValue(o, k) == o[CHOOSE i \in 1..Len(o) : o[i][1] = k][2]

\* key in o: own or inherited
In(o, k) == HasOwn(o, k) \/ k \in ObjectPrototypeKeys

\* o[k] as an expression
Get(o, k) ==
  IF HasOwn(o, k) THEN OwnValue(o, k)
  ELSE IF k = K_proto THEN ObjV(<<>>)
  ELSE IF k \in ObjectPrototypeKeys THEN NativeFunction
  ELSE Undefined

\* CreateDataProperty, as object spread and JSON.parse do it
DefineOwn(o, k, v) ==
  IF HasOwn(o, k)
  THEN [o EXCEPT ![CHOOSE i \in 1..Len(o) : o[i][1] = k] = <<k, v>>]
  ELSE IF IsArrayIndex(k)
  THEN LET n == Cardinality({i \in 1..Len(o) :
                    IsArrayIndex(o[i][1]) /\ IndexValue(o[i][1]) < IndexValue(k)})
       IN  SubSeq(o, 1, n) \o <<<<k, v>>>> \o SubSeq(o, n + 1, Len(o))
  ELSE Append(o, <<k, v>>)

\* o[k] = v: an own property is overwritten; the inherited __proto__ setter
\* ignores a value that is not an object; otherwise the property is created
Set(o, k, v) ==
  IF ~HasOwn(o, k) /\ k = K_proto THEN o ELSE DefineOwn(o, k, v)

\* delete o[k]
Delete(o, k) ==
  LET Keep(acc, e) == IF e[1] = k THEN acc ELSE Append(acc, e)
  IN  Fold(Keep, <<>>, o)

\* { ...o }
Spread(o) ==
  LET Copy(acc, e) == DefineOwn(acc, e[1], e[2]) IN Fold(Copy, <<>>, o)

\* String(v), as a template literal and RegExp.prototype.exec coerce a value
\* (the model coerces strings, numbers below ten and plain objects only)
ToStringJS(v) ==
  CASE v.t = "string" -> v.v
    [] v.t = "number" /\ v.v \in 0..9 -> <<CodeUnitOrder[CodeUnit("0") + v.v]>>
    [] v.t = "object" ->
         <<"[", "o", "b", "j", "e", "c", "t", " ", "O", "b", "j", "e", "c", "t", "]">>

\* !v
Falsy(v) ==
  \/ v.t = "undefined"
  \/ v.t = "string" /\ v.v = <<>>
  \/ v.t = "number" /\ v.v = 0

WhiteSpace == {" ", "\n"}

\* the heap: object number r is heap[r]; allocation appends
Alloc(heap, o) == Append(heap, o)

(***************************************************************************)
(* src/src/core/updater.ts                                                 *)
(***************************************************************************)
PARAM_MISMATCH ==
  <<"[", "P", "A", "R", "A", "M", "_", "M", "I", "S", "M", "A", "T", "C", "H", "]", " ">>

\* where /\{[^}]+\}/ matches str starting at i: the index of the closing
\* brace, or 0 when there is no match at i
ParamEnd(str, i) ==
  IF /\ str[i] = "{"
     /\ i + 1 <= Len(str)
     /\ str[i + 1] # "}"
     /\ \E j \in (i + 2)..Len(str) : str[j] = "}"
  THEN CHOOSE j \in (i + 2)..Len(str) :
         str[j] = "}" /\ \A m \in (i + 2)..(j - 1) : str[m] # "}"
  ELSE 0

hasParams(str) == \E i \in 1..Len(str) : ParamEnd(str, i) # 0

\* while ((match = regex.exec(str)) !== null) params.push(match[1]), with
\* regex = /\{([^}]+)\}/g: the captures of the successive matches
execAll(str) ==
  LET from[i \in 1..(Len(str) + 1)] ==
        IF i > Len(str) THEN <<>>
        ELSE IF ParamEnd(str, i) # 0
        THEN <<SubSeq(str, i + 1, ParamEnd(str, i) - 1)>> \o from[ParamEnd(str, i) + 1]
        ELSE from[i + 1]
  IN  from[1]

extractParams(str) == SortDefault(execAll(str))

arraysEqual(a, b) ==
  IF Len(a) # Len(b) THEN FALSE
  ELSE \A i \in 1..Len(a) : a[i] = b[i]

\* result = target: the target itself instead of a copy of it
ShallowCopyAlias(heap, target) == [heap |-> heap, ref |-> target]

\* let result = { ...target }: a new object, [heap, ref]
ShallowCopy(heap, target) ==
  [heap |-> Alloc(heap, Spread(heap[target])), ref |-> Len(heap) + 1]

\* !Object.prototype.hasOwnProperty.call(source, key) instead of !(key in source)
FlushRemovesOwn(source, key) == ~HasOwn(source, key)

\* the test of the flush loop: !(key in source)
FlushRemoves(source, key) == ~In(source, key)

\* the untranslated branch never taken
IsUntranslatedNever(result, key) == FALSE

\* the test of the untranslated branch: result[key] === key
IsUntranslated(result, key) == Get(result, key) = Str(key)

\* the marker alone, the original text discarded
MarkOnly(value) == Str(PARAM_MISMATCH)

\* a value that starts with the marker
CarriesMarker(value) ==
  /\ value.t = "string"
  /\ Len(value.v) >= Len(PARAM_MISMATCH)
  /\ SubSeq(value.v, 1, Len(PARAM_MISMATCH)) = PARAM_MISMATCH

\* a marking that leaves a marked value as it is
MarkMismatchOnce(value) ==
  IF CarriesMarker(value) THEN value ELSE Str(PARAM_MISMATCH \o ToStringJS(value))

\* `[PARAM_MISMATCH] ${value}`
MarkMismatch(value) == Str(PARAM_MISMATCH \o ToStringJS(value))

\* hasParams(key) alone, the validateParams option ignored
ShouldValidateAlways(options, key) == hasParams(key)

\* the test of the validation branch: validateParams && hasParams(key)
ShouldValidate(options, key) == options.validateParams /\ hasParams(key)

\* const stats = { added: 0, removed: 0, unchanged: 0, total: 0 } beside the
\* fresh result: the state the two loops of updateLocale work on
StartState(copied) ==
  [heap |-> copied.heap, result |-> copied.ref,
   stats |-> [added |-> 0, removed |-> 0, unchanged |-> 0, total |-> 0]]

\* one round of the flush loop
FlushKey(st, source, key) ==
  IF FlushRemoves(st.heap[source], key)
  THEN [st EXCEPT !.heap[st.result] = Delete(@, key), !.stats.removed = @ + 1]
  ELSE st

\* if (options.flush) for (const key in result) ...
FlushLoop(st, source, options) ==
  IF options.flush
  THEN Fold(LAMBDA s, key : FlushKey(s, source, key), st, OwnKeys(st.heap[st.result]))
  ELSE st

\* the existing-key branch of the source loop, stats.total already counted
ExistingKey(st, value, own, options, key) ==
  IF options.removeUntranslated /\ IsUntranslated(own, key)
  THEN [st EXCEPT !.heap[st.result] = Set(@, key, value)]
  ELSE IF ShouldValidate(options, key)
  THEN IF ~arraysEqual(extractParams(ToStringJS(value)),
                       extractParams(ToStringJS(Get(own, key))))
       THEN [st EXCEPT !.heap[st.result] = Set(@, key, MarkMismatch(Get(own, key)))]
       ELSE st
  ELSE [st EXCEPT !.stats.unchanged = @ + 1]

\* the new-key branch of the source loop
NewKey(st, value, key) ==
  [st EXCEPT !.heap[st.result] = Set(@, key, value), !.stats.added = @ + 1]

\* one round of the source loop
SourceKey(st, source, options, key) ==
  IF In(st.heap[st.result], key)
  THEN ExistingKey([st EXCEPT !.stats.total = @ + 1],
                   Get(st.heap[source], key), st.heap[st.result], options, key)
  ELSE NewKey([st EXCEPT !.stats.total = @ + 1], Get(st.heap[source], key), key)

\* for (const key in source) ...
SourceLoop(st, source, options) ==
  Fold(LAMBDA s, key : SourceKey(s, source, options, key), st, OwnKeys(st.heap[source]))

\* the body of updateLocale up to its return: [heap, result, stats], source
\* and target being references into the heap
updateLocaleBody(heap, source, target, options) ==
  SourceLoop(FlushLoop(StartState(ShallowCopy(heap, target)), source, options),
             source, options)

\* return options.returnStats ? { result, stats } : result
Return(body, options) ==
  [heap |-> body.heap,
   ret  |-> IF options.returnStats
            THEN [kind |-> "UpdateResult", result |-> body.result, stats |-> body.stats]
            ELSE [kind |-> "Record", result |-> body.result]]

\* updateLocale: [heap, ret], ret being the reference of the result, or the
\* { result, stats } object when returnStats is set
updateLocale(heap, source, target, options) ==
  Return(updateLocaleBody(heap, source, target, options), options)

\* Object.assign(merged, source)
ObjectAssign(to, from) ==
  Fold(LAMBDA acc, e : Set(acc, e[1], e[2]), to, from)

\* const merged = {}; for (const source of sources) Object.assign(merged, source)
MergeSources(heap, sources) ==
  Fold(LAMBDA h, source : [h EXCEPT ![Len(heap) + 1] = ObjectAssign(@, h[source])],
       Alloc(heap, <<>>), sources)

mergeLocales(heap, sources, target, options) ==
  updateLocale(MergeSources(heap, sources), Len(heap) + 1, target, options)

\* the characters in the primary order of the root collation (a letter and
\* its capital have the same primary weight)
CollationOrder ==
  <<"\n", " ", "_", ",", ":", "\"", "[", "]", "{", "}", "\\",
    "0", "1", "2", "3", "4", "5", "6", "7", "8", "9",
    "a", "b", "c", "d", "e", "g", "h", "i", "j", "l", "m", "n", "o", "p", "r",
    "s", "t", "u", "v", "x">>

Capitals == {"A", "C", "H", "I", "M", "O", "P", "R", "S", "T"}

LowerCase(c) ==
  CASE c = "A" -> "a" [] c = "C" -> "c" [] c = "H" -> "h" [] c = "I" -> "i"
    [] c = "M" -> "m" [] c = "O" -> "o" [] c = "P" -> "p" [] c = "R" -> "r"
    [] c = "S" -> "s" [] c = "T" -> "t" [] OTHER -> c

PrimaryWeight(c) ==
  CHOOSE i \in 1..Len(CollationOrder) : CollationOrder[i] = LowerCase(c)

\* a < b for sequences of numbers, lexicographically
LexLess(a, b) ==
  \E i \in 1..(Len(a) + 1) :
     /\ i <= Len(b)
     /\ \A j \in 1..(i - 1) : a[j] = b[j]
     /\ (i = Len(a) + 1 \/ a[i] < b[i])

\* a.localeCompare(b) < 0: primary weights first, the case of the letters
\* only between strings whose primary weights are all equal
LocaleLess(a, b) ==
  LET pa == [i \in 1..Len(a) |-> PrimaryWeight(a[i])]
      pb == [i \in 1..Len(b) |-> PrimaryWeight(b[i])]
      ca == [i \in 1..Len(a) |-> IF a[i] \in Capitals THEN 1 ELSE 0]
      cb == [i \in 1..Len(b) |-> IF b[i] \in Capitals THEN 1 ELSE 0]
  IN  IF pa # pb THEN LexLess(pa, pb) ELSE LexLess(ca, cb)

\* keys.sort((a, b) => a.localeCompare(b))
SortLocale(keys) ==
  LET Insert(sorted, x) ==
        LET n == Cardinality({i \in 1..Len(sorted) : ~LocaleLess(x, sorted[i])})
        IN  SubSeq(sorted, 1, n) \o <<x>> \o SubSeq(sorted, n + 1, Len(sorted))
  IN  Fold(Insert, <<>>, keys)

\* sortKeys: [heap, ref], the reference of the new object
sortKeys(heap, obj) ==
  LET sorted == Len(heap) + 1
      keys == SortLocale(OwnKeys(heap[obj]))
      Put(h, key) == [h EXCEPT ![sorted] = Set(@, key, Get(h[obj], key))]
  IN  [heap |-> Fold(Put, Alloc(heap, <<>>), keys), ref |-> sorted]

\* !value || (typeof value === 'string' && value.trim() === '')
IsBlank(value) ==
  \/ Falsy(value)
  \/ value.t = "string" /\ \A i \in 1..Len(value.v) : value.v[i] \in WhiteSpace

\* cleanUnused: [heap, ref]
cleanUnused(heap, data, options) ==
  LET cleaned == Len(heap) + 1
      Visit(h, key) ==
        LET value == Get(h[data], key)
        IN  IF IsBlank(value) THEN h
            ELSE IF options.removeUntranslated /\ value = Str(key) THEN h
            ELSE [h EXCEPT ![cleaned] = Set(@, key, value)]
      h0 == Alloc(heap, <<>>)
  IN  [heap |-> Fold(Visit, h0, OwnKeys(h0[data])), ref |-> cleaned]

\* findMissing: the list of keys (the heap is only read)
findMissing(heap, source, target) ==
  LET Visit(missing, key) ==
        IF \/ ~In(heap[target], key)
           \/ Get(heap[target], key) = Str(key)
           \/ Get(heap[target], key) = Str(<<>>)
        THEN Append(missing, key) ELSE missing
  IN  Fold(Visit, <<>>, OwnKeys(heap[source]))

\* findUnused: the list of keys (the heap is only read)
findUnused(heap, source, target) ==
  LET Visit(unused, key) ==
        IF ~In(heap[source], key) THEN Append(unused, key) ELSE unused
  IN  Fold(Visit, <<>>, OwnKeys(heap[target]))

(***************************************************************************)
(* IEEE 754 double arithmetic of getCoverage's percentage.  A positive     *)
(* number is [bits, exp]: the binary integer bits (most significant bit    *)
(* first) times 2^exp.                                                     *)
(***************************************************************************)
\* the width of a double's significand
SignificandBits == 53
\* the fraction bits the long division produces before rounding
DivisionBits == 64

StripZeros(bits) ==
  LET n == Cardinality({i \in 1..Len(bits) : \A j \in 1..i : bits[j] = 0})
  IN  SubSeq(bits, n + 1, Len(bits))

\* bits + 1
BitsIncrement(bits) ==
  LET ones == Cardinality({i \in 1..Len(bits) : \A j \in i..Len(bits) : bits[j] = 1})
      n == Len(bits)
  IN  IF ones = n THEN <<1>> \o [i \in 1..n |-> 0]
      ELSE [i \in 1..n |-> IF i < n - ones THEN bits[i]
                           ELSE IF i = n - ones THEN 1 ELSE 0]

\* round to nearest, ties to even, to a 53-bit significand
RoundToDouble(x) ==
  LET bits == StripZeros(x.bits)
      drop == Len(bits) - SignificandBits
  IN  IF drop <= 0 THEN [bits |-> bits, exp |-> x.exp]
      ELSE LET keep == SubSeq(bits, 1, SignificandBits)
               rest == SubSeq(bits, SignificandBits + 1, Len(bits))
               up == /\ rest[1] = 1
                     /\ \/ keep[SignificandBits] = 1
                        \/ \E i \in 2..Len(rest) : rest[i] = 1
           IN  [bits |-> IF up THEN BitsIncrement(keep) ELSE keep, exp |-> x.exp + drop]

\* translated / total as a double, for 0 < translated and 0 < total
DoubleDivide(translated, total) ==
  LET whole == translated \div total
      wholeBits == IF whole = 0 THEN <<>> ELSE <<1>>
      Step(st, i) ==
        LET r == 2 * st.r
        IN  IF r >= total THEN [r |-> r - total, bits |-> Append(st.bits, 1)]
            ELSE [r |-> r, bits |-> Append(st.bits, 0)]
      q == Fold(Step, [r |-> translated % total, bits |-> wholeBits],
                [i \in 1..DivisionBits |-> i])
      sticky == IF q.r # 0 THEN <<1>> ELSE <<0>>
  IN  RoundToDouble([bits |-> q.bits \o sticky, exp |-> 0 - (DivisionBits + 1)])

\* x * 100 as a double
DoubleTimes100(x) ==
  LET n == Len(x.bits)
      Step(st, i) ==
        LET sum == 100 * x.bits[n + 1 - i] + st.carry
        IN  [carry |-> sum \div 2, bits |-> <<sum % 2>> \o st.bits]
      low == Fold(Step, [carry |-> 0, bits |-> <<>>], [i \in 1..n |-> i])
      Carry(st, i) == [carry |-> st.carry \div 2, bits |-> <<st.carry % 2>> \o st.bits]
      all == Fold(Carry, low, [i \in 1..7 |-> i])
  IN  RoundToDouble([bits |-> all.bits, exp |-> x.exp])

BitsValue(bits) ==
  LET Step(acc, b) == 2 * acc + b IN Fold(Step, 0, bits)

\* Math.round(x): the nearest integer, a tie going up; for 0 <= x < 2^30
MathRound(x) ==
  LET bits == StripZeros(x.bits)
      frac == 0 - x.exp
      n == Len(bits)
  IN  IF frac <= 0 THEN BitsValue(bits \o [i \in 1..x.exp |-> 0])
      ELSE IF frac > n THEN 0
      ELSE BitsValue(SubSeq(bits, 1, n - frac)) + bits[n - frac + 1]

\* total > 0 ? Math.round((translated / total) * 100) : 100
Percentage(translated, total) ==
  IF total > 0
  THEN IF translated = 0 THEN 0
       ELSE MathRound(DoubleTimes100(DoubleDivide(translated, total)))
  ELSE 100

\* getCoverage: the record returned (the heap is only read)
getCoverage(heap, source, target) ==
  LET total == Len(OwnKeys(heap[source]))
      Visit(translated, key) ==
        IF /\ In(heap[target], key)
           /\ Get(heap[target], key) # Str(key)
           /\ Get(heap[target], key) # Str(<<>>)
        THEN translated + 1 ELSE translated
      translated == Fold(Visit, 0, OwnKeys(heap[source]))
  IN  [total |-> total, translated |-> translated, missing |-> total - translated,
       percentage |-> Percentage(translated, total)]

(***************************************************************************)
(* JSON.stringify and JSON.parse, over the values of the model: strings,   *)
(* numbers below ten and objects of them.  An object held as a value is    *)
(* ObjV(o), o being its entries.                                           *)
(***************************************************************************)
\* the escape of one character inside a JSON string
EscapeJSON(c) ==
  IF c = "\"" THEN <<"\\", "\"">>
  ELSE IF c = "\\" THEN <<"\\", "\\">>
  ELSE IF c = "\n" THEN <<"\\", "n">>
  ELSE <<c>>

\* QuoteJSONString
QuoteJSONString(chars) ==
  <<"\"">> \o Fold(LAMBDA acc, c : acc \o EscapeJSON(c), <<>>, chars) \o <<"\"">>

\* str repeated n times
Repeat(str, n) == Fold(LAMBDA acc, i : acc \o str, <<>>, [i \in 1..n |-> i])

\* the members joined by the separator
Join(members, separator) ==
  Fold(LAMBDA acc, m : IF acc = <<>> THEN m ELSE acc \o separator \o m, <<>>, members)

\* SerializeJSONProperty and SerializeJSONObject: the text of value v at
\* nesting depth, gap being the indentation unit ("" when compact); <<>>
\* stands for undefined (the property is left out)
RECURSIVE SerializeJSON(_, _, _)
SerializeJSON(v, depth, gap) ==
  IF v.t = "string" THEN QuoteJSONString(v.v)
  ELSE IF v.t = "number" THEN ToStringJS(v)
  ELSE IF v.t = "object"
  THEN LET indent == Repeat(gap, depth + 1)
           stepback == Repeat(gap, depth)
           Member(acc, e) ==
             LET strP == SerializeJSON(e[2], depth + 1, gap)
             IN  IF strP = <<>> THEN acc
                 ELSE Append(acc, QuoteJSONString(e[1]) \o <<":">>
                                    \o (IF gap = <<>> THEN <<>> ELSE <<" ">>) \o strP)
           partial == Fold(Member, <<>>, v.v)
       IN  IF partial = <<>> THEN <<"{", "}">>
           ELSE IF gap = <<>> THEN <<"{">> \o Join(partial, <<",">>) \o <<"}">>
           ELSE <<"{", "\n">> \o indent \o Join(partial, <<",", "\n">> \o indent)
                  \o <<"\n">> \o stepback \o <<"}">>
  ELSE <<>>

\* JSON.stringify(o, null, 2) when pretty, JSON.stringify(o) otherwise
JSONStringify(o, pretty) ==
  SerializeJSON(ObjV(o), 0, IF pretty THEN <<" ", " ">> ELSE <<>>)

\* the first position from i on that holds no white space
SkipWhiteSpace(text, i) ==
  IF \E j \in i..Len(text) : text[j] \notin WhiteSpace
  THEN CHOOSE j \in i..Len(text) :
         text[j] \notin WhiteSpace /\ \A m \in i..(j - 1) : text[m] \in WhiteSpace
  ELSE Len(text) + 1

\* text[j] is a quote that no backslash escapes
ClosingQuote(text, i, j) ==
  /\ text[j] = "\""
  /\ Cardinality({m \in (i + 1)..(j - 1) : \A n \in m..(j - 1) : text[n] = "\\"}) % 2 = 0

\* the characters of a JSON string body, the escapes undone; "fail" for an
\* escape or a control character JSON does not allow
Unescape(body) ==
  LET Step(st, c) ==
        IF st.fail THEN st
        ELSE IF st.escaped
        THEN IF c \in {"\"", "\\"} THEN [st EXCEPT !.escaped = FALSE, !.out = Append(@, c)]
             ELSE IF c = "n" THEN [st EXCEPT !.escaped = FALSE, !.out = Append(@, "\n")]
             ELSE [st EXCEPT !.fail = TRUE]
        ELSE IF c = "\\" THEN [st EXCEPT !.escaped = TRUE]
        ELSE IF c = "\n" THEN [st EXCEPT !.fail = TRUE]
        ELSE [st EXCEPT !.out = Append(@, c)]
  IN  Fold(Step, [escaped |-> FALSE, fail |-> FALSE, out |-> <<>>], body)

SyntaxError == [ok |-> FALSE]

\* a JSON string starting at i: [ok, value, next]
ParseJSONString(text, i) ==
  IF i > Len(text) \/ text[i] # "\"" THEN SyntaxError
  ELSE IF ~\E j \in (i + 1)..Len(text) : ClosingQuote(text, i, j) THEN SyntaxError
  ELSE LET end == CHOOSE j \in (i + 1)..Len(text) :
                    /\ ClosingQuote(text, i, j)
                    /\ \A m \in (i + 1)..(j - 1) : ~ClosingQuote(text, i, m)
           body == Unescape(SubSeq(text, i + 1, end - 1))
       IN  IF body.fail THEN SyntaxError
           ELSE [ok |-> TRUE, value |-> body.out, next |-> end + 1]

\* a JSON value starting at i (white space skipped), and the members of an
\* object from the one starting at i on, o holding the earlier ones (each is
\* created as JSON.parse creates a property): [ok, value, next]
RECURSIVE ParseJSONValue(_, _)
RECURSIVE ParseJSONMembers(_, _, _)

\* after a member: a comma and the next member, or the closing brace
MemberEnd(text, o, after) ==
  IF after > Len(text) THEN SyntaxError
  ELSE IF text[after] = ","
  THEN ParseJSONMembers(text, SkipWhiteSpace(text, after + 1), o)
  ELSE IF text[after] = "}"
  THEN [ok |-> TRUE, value |-> ObjV(o), next |-> after + 1]
  ELSE SyntaxError

MemberAfterValue(text, k, member, o) ==
  IF ~member.ok THEN SyntaxError
  ELSE MemberEnd(text, DefineOwn(o, k, member.value), SkipWhiteSpace(text, member.next))

MemberAfterColon(text, k, colon, o) ==
  IF colon > Len(text) \/ text[colon] # ":" THEN SyntaxError
  ELSE MemberAfterValue(text, k, ParseJSONValue(text, colon + 1), o)

MemberAfterKey(text, key, o) ==
  IF ~key.ok THEN SyntaxError
  ELSE MemberAfterColon(text, key.value, SkipWhiteSpace(text, key.next), o)

ParseJSONMembers(text, i, o) == MemberAfterKey(text, ParseJSONString(text, i), o)

\* after the opening brace
ObjectAt(text, first) ==
  IF first <= Len(text) /\ text[first] = "}"
  THEN [ok |-> TRUE, value |-> ObjV(<<>>), next |-> first + 1]
  ELSE ParseJSONMembers(text, first, <<>>)

StringValue(str) == IF str.ok THEN [str EXCEPT !.value = Str(@)] ELSE SyntaxError

ValueAt(text, at) ==
  IF at > Len(text) THEN SyntaxError
  ELSE IF text[at] = "\"" THEN StringValue(ParseJSONString(text, at))
  ELSE IF text[at] \in Digits
  THEN [ok |-> TRUE, value |-> Num(DigitValue(text[at])), next |-> at + 1]
  ELSE IF text[at] = "{" THEN ObjectAt(text, SkipWhiteSpace(text, at + 1))
  ELSE SyntaxError

ParseJSONValue(text, i) == ValueAt(text, SkipWhiteSpace(text, i))

\* the text is one value and white space
WholeText(text, parsed) ==
  IF parsed.ok /\ SkipWhiteSpace(text, parsed.next) > Len(text)
  THEN [ok |-> TRUE, value |-> parsed.value]
  ELSE SyntaxError

\* JSON.parse(text): [ok, value], ok being FALSE when it throws a SyntaxError
JSONParse(text) == WholeText(text, ParseJSONValue(text, 1))

(***************************************************************************)
(* The file functions of updater.ts.  A file system is [files, dirs]:      *)
(* files maps the paths of the existing files to their text.               *)
(***************************************************************************)
\* path.dirname, on the paths of the model
dirname(path) == IF path = "out/ja.json" THEN "out" ELSE "locales"

\* fs.mkdir(path.dirname(filePath), { recursive: true })
mkdir(fs, dir) == [fs EXCEPT !.dirs = @ \cup {dir}]

\* fs.writeFile(filePath, text, 'utf-8')
writeFile(fs, path, text) ==
  [fs EXCEPT !.files = [q \in DOMAIN @ \cup {path} |-> IF q = path THEN text ELSE @[q]]]

\* return JSON.parse(content), and the SyntaxError of JSON.parse thrown on
ParsedFile(heap, parsed) ==
  IF parsed.ok
  THEN [kind |-> "return", heap |-> Alloc(heap, parsed.value.v), ref |-> Len(heap) + 1]
  ELSE [kind |-> "throw", heap |-> heap, ref |-> 0]

\* readLocaleFile once fs.readFile has settled: the parsed text as a new
\* object, and a new {} when the file does not exist (ENOENT)
readLocaleFile(heap, fs, path) ==
  IF path \notin DOMAIN fs.files
  THEN [kind |-> "return", heap |-> Alloc(heap, <<>>), ref |-> Len(heap) + 1]
  ELSE ParsedFile(heap, JSONParse(fs.files[path]))

\* const finalData = sort ? sortKeys(data) : data: [heap, ref]
FinalData(heap, data, sort) ==
  IF sort THEN sortKeys(heap, data) ELSE [heap |-> heap, ref |-> data]

\* content + '\n', content being JSON.stringify of the final data
FileText(final, pretty) ==
  [heap |-> final.heap, text |-> JSONStringify(final.heap[final.ref], pretty) \o <<"\n">>]

\* writeLocaleFile up to its first await: [heap, text]
writeLocaleFile(heap, data, options) ==
  FileText(FinalData(heap, data, options.sort), options.pretty)

\* the value updateLocale returned, as an object: the result itself, or
\* { result, stats }
Returned(heap, ret) ==
  IF ret.kind = "UpdateResult"
  THEN <<<<<<"r", "e", "s", "u", "l", "t">>, ObjV(heap[ret.result])>>,
         <<<<"s", "t", "a", "t", "s">>,
           ObjV(<<<<<<"a", "d", "d", "e", "d">>, Num(ret.stats.added)>>,
                  <<<<"r", "e", "m", "o", "v", "e", "d">>, Num(ret.stats.removed)>>,
                  <<<<"u", "n", "c", "h", "a", "n", "g", "e", "d">>, Num(ret.stats.unchanged)>>,
                  <<<<"t", "o", "t", "a", "l">>, Num(ret.stats.total)>>>>)>>>>
  ELSE heap[ret.result]

\* const updated = updateLocale(source, target, options): [heap, ref], ref
\* being the reference of updated
Updated(r) ==
  [heap |-> IF r.ret.kind = "UpdateResult" THEN Alloc(r.heap, Returned(r.heap, r.ret))
            ELSE r.heap,
   ref  |-> IF r.ret.kind = "UpdateResult" THEN Len(r.heap) + 1 ELSE r.ret.result]

(***************************************************************************)
(* src/src/core/parser.ts and src/src/core/extractor.ts: extraction.       *)
(* A source text is represented by what Babel and the regular expressions  *)
(* make of it: [js, ts, calls, matches].  js is "ok", "errors" (the        *)
(* tolerant parse recovers and reports diagnostics) or "throws"; ts is     *)
(* "ok" or "throws"; calls are the CallExpression nodes of the tree in     *)
(* traversal order; matches are the matches of the fallback patterns.      *)
(***************************************************************************)
Null == [type |-> "null"]

S_t == <<"t">>
S_dollar_t == <<"$", "t">>
S_values == <<"v", "a", "l", "u", "e", "s">>

\* parser.parse(code, { errorRecovery, ... }) of @babel/parser, as
\* parseJavaScript calls it
BabelParse(code, errorRecovery) ==
  IF code.js = "ok" \/ (code.js = "errors" /\ errorRecovery)
  THEN [kind  |-> "return",
        value |-> [type   |-> "File",
                   calls  |-> code.calls,
                   errors |-> IF code.js = "ok" THEN <<>> ELSE <<"SyntaxError">>]]
  ELSE [kind |-> "throw", value |-> "SyntaxError"]

\* parseJavaScript(code, { errorRecovery, file }), the cache off and no user
\* plugin
parseJavaScript(code, errorRecovery) ==
  LET parsed == BabelParse(code, errorRecovery)
  IN  IF parsed.kind = "return"
      THEN IF errorRecovery /\ parsed.value.errors # <<>>
           THEN [kind |-> "return",
                 value |-> [ast |-> parsed.value, errors |-> parsed.value.errors]]
           ELSE parsed
      ELSE IF errorRecovery
      THEN [kind |-> "return", value |-> [ast |-> Null, errors |-> <<"SyntaxError">>]]
      ELSE [kind |-> "throw", value |-> "ParseError"]

\* cache ? `js:${code}` : null
CacheKey(code) == [prefix |-> "js:", code |-> code]

\* parseCache.has(cacheKey)
CacheHas(cache, cacheKey) == \E i \in 1..Len(cache) : cache[i][1] = cacheKey

\* parseCache.get(cacheKey)
CacheGet(cache, cacheKey) == cache[CHOOSE i \in 1..Len(cache) : cache[i][1] = cacheKey][2]

\* parseCache.set(cacheKey, ast)
CacheSet(cache, cacheKey, ast) ==
  IF CacheHas(cache, cacheKey)
  THEN [i \in 1..Len(cache) |->
          IF cache[i][1] = cacheKey THEN <<cacheKey, ast>> ELSE cache[i]]
  ELSE Append(cache, <<cacheKey, ast>>)

\* a reference to the object at a place of the heap
Ref(n) == [ref |-> n]

\* if (cache && cacheKey && parseCache.has(cacheKey))
CacheHit(cache, code, options) ==
  /\ options.cache
  /\ CacheHas(cache, CacheKey(code))

\* the try block of parseJavaScript and its catch, the parser having settled
\* (no user plugin): the tree is allocated and cached, and returned bare or
\* in a fresh { ast, errors }
Parsed(heap, cache, code, options, parsed) ==
  IF parsed.kind = "return"
  THEN LET cached == IF options.cache
                     THEN CacheSet(cache, CacheKey(code), Ref(Len(heap) + 1))
                     ELSE cache
       IN  IF options.errorRecovery /\ parsed.value.errors # <<>>
           THEN [heap  |-> heap \o <<parsed.value,
                                     [ast |-> Ref(Len(heap) + 1),
                                      errors |-> parsed.value.errors]>>,
                 cache |-> cached,
                 ret   |-> [kind |-> "return", value |-> Ref(Len(heap) + 2)]]
           ELSE [heap  |-> Append(heap, parsed.value),
                 cache |-> cached,
                 ret   |-> [kind |-> "return", value |-> Ref(Len(heap) + 1)]]
  ELSE IF options.errorRecovery
  THEN [heap  |-> Append(heap, [ast |-> Null, errors |-> <<"SyntaxError">>]),
        cache |-> cache,
        ret   |-> [kind |-> "return", value |-> Ref(Len(heap) + 1)]]
  ELSE [heap |-> heap, cache |-> cache,
        ret  |-> [kind |-> "throw", value |-> [error |-> "ParseError"]]]

\* parseJavaScript(code, { cache, errorRecovery }) on the heap and the cache:
\* [heap, cache, ret], a returned value being a reference
parseJavaScriptCached(heap, cache, code, options) ==
  IF CacheHit(cache, code, options)
  THEN [heap |-> heap, cache |-> cache,
        ret  |-> [kind |-> "return", value |-> CacheGet(cache, CacheKey(code))]]
  ELSE Parsed(heap, cache, code, options, BabelParse(code, options.errorRecovery))

\* clearParseCache()
clearParseCache(cache) == <<>>

\* parseTypeScript(code, { file })
parseTypeScript(code) ==
  IF code.ts = "ok"
  THEN [kind |-> "return",
        value |-> [type |-> "File", calls |-> code.calls, errors |-> <<>>]]
  ELSE [kind |-> "throw", value |-> "ParseError"]

\* const { functionNames = ['$t', 't'] } = options
FunctionNamesOf(functionNames) ==
  IF functionNames = Undefined THEN <<S_dollar_t, S_t>> ELSE functionNames.v

\* the name a call is made by: the identifier called or the identifier of the
\* property called, <<>> (null) otherwise
functionName(node) ==
  IF node.callee.type = "Identifier" THEN node.callee.name
  ELSE IF /\ node.callee.type = "MemberExpression"
          /\ node.callee.property.type = "Identifier"
  THEN node.callee.property.name
  ELSE <<>>

\* p => { if (p.key.type === 'Identifier' && p.key.name) params[p.key.name] = true },
\* on [params, thrown]; a property without key (a spread element) makes
\* p.key.type a TypeError
EachValuesProperty(st, p) ==
  IF st.thrown THEN st
  ELSE IF "key" \notin DOMAIN p THEN [st EXCEPT !.thrown = TRUE]
  ELSE IF p.key.type = "Identifier"
  THEN [st EXCEPT !.params = Set(@, p.key.name, [t |-> "boolean", v |-> TRUE])]
  ELSE st

\* prop => { if (prop.key.type === 'Identifier' && prop.key.name === 'values')
\*             if (prop.value.type === 'ObjectExpression') ... }
EachProperty(st, prop) ==
  IF st.thrown THEN st
  ELSE IF "key" \notin DOMAIN prop THEN [st EXCEPT !.thrown = TRUE]
  ELSE IF /\ prop.key.type = "Identifier"
          /\ prop.key.name = S_values
          /\ prop.value.type = "ObjectExpression"
  THEN Fold(EachValuesProperty, st, prop.value.properties)
  ELSE st

\* the params object of an ObjectExpression argument: [params, thrown]
ParamsOf(arg) == Fold(EachProperty, [params |-> <<>>, thrown |-> FALSE], arg.properties)

IsStringLiteral(node) == node.type \in {"StringLiteral", "Literal"}

\* a conditional argument that pushes its calls only when both branches are
\* string literals
BranchCallsBoth(callInfo, arg, index) ==
  IF IsStringLiteral(arg.consequent) /\ IsStringLiteral(arg.alternate)
  THEN <<[callInfo EXCEPT !.arguments =
            <<[type |-> "string", value |-> arg.consequent.value] @@ [index |-> index]>>],
         [callInfo EXCEPT !.arguments =
            <<[type |-> "string", value |-> arg.alternate.value] @@ [index |-> index]>>]>>
  ELSE <<>>

\* the calls a conditional argument pushes: one for each branch that is a
\* string literal, { ...callInfo, arguments: [{ type: 'string', value, index }] }
BranchCalls(callInfo, arg, index) ==
  LET Branch(node) ==
        IF IsStringLiteral(node)
        THEN <<[callInfo EXCEPT !.arguments =
                  <<[type |-> "string", value |-> node.value] @@ [index |-> index]>>]>>
        ELSE <<>>
  IN  Branch(arg.consequent) \o Branch(arg.alternate)

\* one round of the argument loop, on [callInfo, index, calls, returned, thrown]
Argument(st, arg) ==
  LET Push(argument) ==
        [st EXCEPT !.index = @ + 1,
                   !.callInfo.arguments = Append(@, argument @@ [index |-> st.index])]
      PushObject(params) ==
        IF params.thrown THEN [st EXCEPT !.thrown = TRUE]
        ELSE Push([type |-> "object", value |-> params.params])
  IN  IF st.returned \/ st.thrown THEN st
      ELSE IF IsStringLiteral(arg)
      THEN Push([type |-> "string", value |-> arg.value])
      ELSE IF arg.type = "TemplateLiteral" /\ arg.expressions = <<>>
      THEN Push([type |-> "template", value |-> arg.quasis[1].value.raw])
      ELSE IF arg.type = "ObjectExpression"
      THEN PushObject(ParamsOf(arg))
      ELSE IF arg.type = "ConditionalExpression"
      THEN [st EXCEPT !.calls = @ \o BranchCalls(st.callInfo, arg, st.index),
                      !.returned = TRUE]
      ELSE [st EXCEPT !.index = @ + 1]

\* the CallExpression visitor, on [calls, thrown, functionNames]
CallExpression(acc, node) ==
  LET Visited(st) ==
        IF st.thrown THEN [acc EXCEPT !.thrown = TRUE]
        ELSE IF st.returned THEN [acc EXCEPT !.calls = @ \o st.calls]
        ELSE IF /\ st.callInfo.arguments # <<>>
                /\ st.callInfo.arguments[1].type # "object"
        THEN [acc EXCEPT !.calls = Append(@, st.callInfo)]
        ELSE acc
      Visit(name) ==
        IF name = <<>> \/ name \notin Range(acc.functionNames) THEN acc
        ELSE Visited(Fold(Argument,
                          [callInfo |-> [name |-> name, arguments |-> <<>>,
                                         loc |-> node.loc],
                           index |-> 0, calls |-> <<>>, returned |-> FALSE,
                           thrown |-> FALSE],
                          node.arguments))
  IN  IF acc.thrown THEN acc ELSE Visit(functionName(node))

\* extractFromAST(ast, { functionNames }): @babel/traverse refuses what is
\* neither a File nor a Program
extractFromAST(ast, functionNames) ==
  LET Traversed(acc) ==
        IF acc.thrown THEN [kind |-> "throw", value |-> "TypeError"]
        ELSE [kind |-> "return", value |-> acc.calls]
  IN  IF "type" \notin DOMAIN ast \/ ast.type \notin {"File", "Program"}
      THEN [kind |-> "throw", value |-> "Error"]
      ELSE Traversed(Fold(CallExpression,
                          [calls |-> <<>>, thrown |-> FALSE,
                           functionNames |-> FunctionNamesOf(functionNames)],
                          ast.calls))

\* extractParamsFromKey(key): the captures of /\{([^}]+)\}/g, in order
extractParamsFromKey(key) == execAll(key)

\* str.includes(c)
includes(str, c) == \E i \in 1..Len(str) : str[i] = c

\* n || 1
OrOne(n) == IF n = 0 THEN 1 ELSE n

\* { key: firstArg.value, file, line: call.loc?.start?.line || 1,
\*   column: call.loc?.start?.column || 1 }
NewItem(call, file) ==
  [key    |-> call.arguments[1].value,
   file   |-> file,
   line   |-> OrOne(call.loc.start.line),
   column |-> OrOne(call.loc.start.column)]

\* item.hasParams = true; item.params = params
WithParams(item, params) == item @@ [hasParams |-> TRUE, params |-> params]

\* key.includes('{') && key.includes('}') ? hasParams and the params of the key
KeyParams(item) ==
  IF includes(item.key, "{") /\ includes(item.key, "}")
  THEN WithParams(item, extractParamsFromKey(item.key))
  ELSE item

\* paramsArg && paramsArg.type === 'object' && typeof paramsArg.value === 'object'
HasParamsArg(call) == Len(call.arguments) >= 2 /\ call.arguments[2].type = "object"

\* the item extract makes of a call (the check for parameters of extract)
extractItem(call, file) ==
  LET Checked(item) ==
        IF HasParamsArg(call)
        THEN IF OwnKeys(call.arguments[2].value) # <<>>
             THEN WithParams(item, extractParamsFromKey(call.arguments[1].value))
             ELSE item
        ELSE KeyParams(item)
  IN  Checked(NewItem(call, file))

\* the item extractFromTypescript makes of a call
extractFromTypescriptItem(call, file) ==
  LET Checked(item) ==
        IF HasParamsArg(call)
        THEN IF OwnKeys(call.arguments[2].value) # <<>>
             THEN WithParams(item, OwnKeys(call.arguments[2].value))
             ELSE item
        ELSE KeyParams(item)
  IN  Checked(NewItem(call, file))

\* for (const call of calls) { const firstArg = call.arguments[0];
\*   if (firstArg && (firstArg.type === 'string' || firstArg.type === 'template')) ... }
ItemsOf(calls, file, Item(_, _)) ==
  Fold(LAMBDA results, call :
         IF call.arguments # <<>> /\ call.arguments[1].type \in {"string", "template"}
         THEN Append(results, Item(call, file))
         ELSE results,
       <<>>, calls)

\* getLineColumn(text, index), before being text.substring(0, index)
getLineColumn(before) ==
  LET breaks == {i \in 1..Len(before) : before[i] = "\n"}
      last == IF breaks = {} THEN 0 ELSE CHOOSE i \in breaks : \A j \in breaks : j <= i
  IN  [line |-> Cardinality(breaks) + 1, column |-> Len(before) - last + 1]

\* str.replace(/\s*\n\s*/g, ' '): each run of white space that holds a line
\* break becomes one space
CollapseLineBreaks(str) ==
  LET White(i) == str[i] \in WhiteSpace
      First(i) == CHOOSE a \in 1..i :
                    (\A j \in a..i : White(j)) /\ (a = 1 \/ ~White(a - 1))
      Last(i) == CHOOSE b \in i..Len(str) :
                   (\A j \in i..b : White(j)) /\ (b = Len(str) \/ ~White(b + 1))
      At(i) == IF ~White(i) \/ (\A j \in First(i)..Last(i) : str[j] # "\n")
               THEN <<str[i]>>
               ELSE IF i = First(i) THEN <<" ">> ELSE <<>>
      from[i \in 1..(Len(str) + 1)] == IF i > Len(str) THEN <<>> ELSE At(i) \o from[i + 1]
  IN  from[1]

\* str.trim()
trim(str) ==
  LET black == {i \in 1..Len(str) : str[i] \notin WhiteSpace}
  IN  IF black = {} THEN <<>>
      ELSE SubSeq(str, CHOOSE i \in black : \A j \in black : i <= j,
                       CHOOSE i \in black : \A j \in black : j <= i)

\* extractWithRegex(code, file): an item for every match of the three
\* patterns, in the order they are found
extractWithRegex(code, file) ==
  Fold(LAMBDA results, match :
         Append(results,
                KeyParams([key    |-> trim(CollapseLineBreaks(match.capture)),
                           file   |-> file,
                           line   |-> getLineColumn(match.before).line,
                           column |-> getLineColumn(match.before).column])),
       <<>>, code.matches)

\* the try block of extract, parseJavaScript having returned parseResult
extractTry(code, file, options, parseResult) ==
  LET Items(calls) ==
        IF calls.kind = "return"
        THEN [kind |-> "return", value |-> ItemsOf(calls.value, file, extractItem)]
        ELSE calls
  IN  IF /\ "errors" \in DOMAIN parseResult
         /\ parseResult.errors # <<>>
         /\ options.fallbackToRegex
      THEN [kind |-> "fallback"]
      ELSE Items(extractFromAST(IF "ast" \in DOMAIN parseResult /\ parseResult.ast # Null
                                THEN parseResult.ast ELSE parseResult,
                                options.functionNames))

\* extract(code, file, options)
extract(code, file, options) ==
  LET Caught(tried) ==
        IF tried.kind = "fallback" \/ (tried.kind = "throw" /\ options.fallbackToRegex)
        THEN [kind |-> "return", value |-> extractWithRegex(code, file)]
        ELSE tried
  IN  Caught(extractTry(code, file, options, parseJavaScript(code, TRUE).value))

\* the try block of extractFromTypescript, parseTypeScript having settled
extractFromTypescriptTry(file, options, ast) ==
  LET Items(calls) ==
        IF calls.kind = "return"
        THEN [kind  |-> "return",
              value |-> ItemsOf(calls.value, file, extractFromTypescriptItem)]
        ELSE calls
  IN  IF ast.kind = "throw" THEN ast
      ELSE Items(extractFromAST(ast.value, options.functionNames))

\* a catch block that keeps the caller's fallbackToRegex
extractFromTypescriptAsAsked(code, file, options) ==
  LET Caught(tried) ==
        IF tried.kind = "throw" THEN extract(code, file, options) ELSE tried
  IN  Caught(extractFromTypescriptTry(file, options, parseTypeScript(code)))

\* extractFromTypescript(code, file, options)
extractFromTypescript(code, file, options) ==
  LET Caught(tried) ==
        IF tried.kind = "throw"
        THEN extract(code, file, [options EXCEPT !.fallbackToRegex = TRUE])
        ELSE tried
  IN  Caught(extractFromTypescriptTry(file, options, parseTypeScript(code)))

\* [...new Set(results)]: the elements in the order of their first occurrence
Unique(results) ==
  Fold(LAMBDA unique, element :
         IF element \in Range(unique) THEN unique ELSE Append(unique, element),
       <<>>, results)

\* parseTemplate(template): the strings the template patterns capture,
\* unescaped and cleaned, each once
parseTemplate(template) == Unique(template.keys)

\* extractFromTemplate(template, file)
extractFromTemplate(template, file) ==
  [index \in 1..Len(parseTemplate(template)) |->
     KeyParams([key |-> parseTemplate(template)[index], file |-> file,
                line |-> index, column |-> 1])]

(***************************************************************************)
(* src/src/core/extractor.ts: the plugin registry, files and directories.  *)
(* A plugin is [id, name, extensions, extract]: id tells plugin objects    *)
(* apart, extract is what its extract function does; isAvailable() of a    *)
(* plugin returns true while its id is in the set of available plugins.    *)
(***************************************************************************)
\* array.findIndex(Test) + 1: the first position that passes, 0 for none
FindIndex(array, Test(_)) ==
  IF \E i \in 1..Len(array) : Test(array[i])
  THEN CHOOSE i \in 1..Len(array) : Test(array[i]) /\ \A j \in 1..(i - 1) : ~Test(array[j])
  ELSE 0

\* registerPlugin without the search for the name: the plugin is pushed
registerPluginPush(plugins, plugin) == Append(plugins, plugin)

\* registerPlugin(plugin)
registerPlugin(plugins, plugin) ==
  LET existing == FindIndex(plugins, LAMBDA p : p.name = plugin.name)
  IN  IF existing >= 1
      THEN [plugins EXCEPT ![existing] = plugin]
      ELSE Append(plugins, plugin)

\* unregisterPlugin(name)
unregisterPlugin(plugins, name) ==
  LET index == FindIndex(plugins, LAMBDA p : p.name = name)
  IN  IF index >= 1
      THEN SubSeq(plugins, 1, index - 1) \o SubSeq(plugins, index + 1, Len(plugins))
      ELSE plugins

\* getRegisteredPlugins(): a copy
getRegisteredPlugins(plugins) == plugins

\* getPluginForExtension without the call of isAvailable
getPluginForExtensionAny(plugins, available, ext) ==
  LET found == FindIndex(plugins, LAMBDA p : ext \in Range(p.extensions))
  IN  IF found >= 1 THEN plugins[found] ELSE Undefined

\* getPluginForExtension(ext)
getPluginForExtension(plugins, available, ext) ==
  LET found == FindIndex(plugins,
                         LAMBDA p : ext \in Range(p.extensions) /\ p.id \in available)
  IN  IF found >= 1 THEN plugins[found] ELSE Undefined

\* path.extname(path): from the last dot of the last segment on, '' when
\* that segment has no dot or only a leading one
extname(path) ==
  LET slashes == {i \in 1..Len(path) : path[i] = "/"}
      base == IF slashes = {} THEN 0 ELSE CHOOSE i \in slashes : \A j \in slashes : j <= i
      dots == {i \in (base + 1)..Len(path) : path[i] = "."}
      dot == CHOOSE i \in dots : \A j \in dots : j <= i
  IN  IF dots = {} \/ dot = base + 1 THEN <<>> ELSE SubSeq(path, dot, Len(path))

E_ts == <<".", "t", "s">>
E_tsx == <<".", "t", "s", "x">>
E_js == <<".", "j", "s">>
E_jsx == <<".", "j", "s", "x">>
E_mjs == <<".", "m", "j", "s">>
E_cjs == <<".", "c", "j", "s">>
E_svelte == <<".", "s", "v", "e", "l", "t", "e">>
E_vue == <<".", "v", "u", "e">>

\* plugin.extract(content, filePath)
PluginExtract(plugin, content, filePath) ==
  IF plugin.extract = "throws"
  THEN [kind |-> "throw", value |-> "Error"]
  ELSE [kind  |-> "return",
        value |-> <<[key |-> plugin.name, file |-> filePath, line |-> plugin.id,
                     column |-> 1]>>]

\* the switch of extractFromFile
BuiltIn(content, filePath, options, ext) ==
  IF ext \in {E_ts, E_tsx} THEN extractFromTypescript(content, filePath, options)
  ELSE IF ext \in {E_js, E_jsx, E_mjs, E_cjs} THEN extract(content, filePath, options)
  ELSE [kind |-> "return", value |-> <<>>]

\* extractFromFile(filePath, options) from the moment fs.readFile has settled
\* with the content
Dispatch(content, filePath, options, plugin) ==
  IF plugin # Undefined
  THEN PluginExtract(plugin, content, filePath)
  ELSE BuiltIn(content, filePath, options, extname(filePath))

\* what the file system holds for a file that cannot be read
Unreadable == [error |-> "EACCES"]

\* fs.readFile(filePath, 'utf-8')
readFile(fs, filePath) ==
  IF filePath \in DOMAIN fs.files /\ fs.files[filePath] # Unreadable
  THEN [kind |-> "return", value |-> fs.files[filePath]]
  ELSE [kind |-> "throw", value |-> "Error"]

\* extractFromFile(filePath, options), fs.readFile having settled
extractFromFile(fs, plugins, available, filePath, options) ==
  IF readFile(fs, filePath).kind = "throw" THEN readFile(fs, filePath)
  ELSE Dispatch(readFile(fs, filePath).value, filePath, options,
                getPluginForExtension(plugins, available, extname(filePath)))

\* include = '**/*.{js,jsx,ts,tsx,mjs,cjs,svelte,vue}'
DefaultInclude ==
  [kind |-> "files",
   extensions |-> {E_js, E_jsx, E_ts, E_tsx, E_mjs, E_cjs, E_svelte, E_vue}]

D_node_modules == <<"n", "o", "d", "e", "_", "m", "o", "d", "u", "l", "e", "s">>
D_dist == <<"d", "i", "s", "t">>
D_build == <<"b", "u", "i", "l", "d">>
D_svelte_kit == <<".", "s", "v", "e", "l", "t", "e", "-", "k", "i", "t">>
D_nuxt == <<".", "n", "u", "x", "t">>

\* the pattern dir/**
Under(dir) == [kind |-> "under", dir |-> dir]

\* exclude = ['node_modules/**', 'dist/**', 'build/**', '.svelte-kit/**', '.nuxt/**']
DefaultExclude ==
  <<Under(D_node_modules), Under(D_dist), Under(D_build), Under(D_svelte_kit),
    Under(D_nuxt)>>

\* whether a glob pattern matches a path: the model has the patterns
\* **/*.{x,y} ("files" of some extensions) and dir/** ("under" a directory)
Matches(pattern, path) ==
  IF pattern.kind = "files" THEN extname(path) \in pattern.extensions
  ELSE /\ Len(path) > Len(pattern.dir)
       /\ SubSeq(path, 1, Len(pattern.dir) + 1) = pattern.dir \o <<"/">>

\* glob(pattern, { cwd: dir, ignore, absolute: true }): the files of the
\* directory, in directory order, that match the pattern and no ignore pattern
glob(pattern, fs, ignore) ==
  Fold(LAMBDA files, path :
         IF /\ path \in DOMAIN fs.files
            /\ Matches(pattern, path)
            /\ \A i \in 1..Len(ignore) : ~Matches(ignore[i], path)
         THEN Append(files, path) ELSE files,
       <<>>, fs.order)

\* const patterns = Array.isArray(include) ? include : [include]
PatternsOf(include) ==
  IF include = Undefined THEN <<DefaultInclude>>
  ELSE IF include.t = "array" THEN include.v ELSE <<include.v>>

\* the files extractFromDirectory enumerates
Enumerate(fs, options) ==
  glob(PatternsOf(options.include)[1], fs,
       IF options.exclude = Undefined THEN DefaultExclude ELSE options.exclude.v)

\* one round of the loop of extractFromDirectory without the catch clause:
\* a failure ends the loop
FileDoneThrow(c, results) ==
  IF results.kind = "throw"
  THEN [c EXCEPT !.pc = "throw"]
  ELSE [c EXCEPT
          !.allResults = @ \o results.value,
          !.processed = @ + 1,
          !.progress = IF c.options.onProgress
                       THEN Append(@, [current |-> c.processed + 1,
                                       total |-> Len(c.files), file |-> c.files[c.i]])
                       ELSE @,
          !.i = @ + 1,
          !.pc = IF c.i = Len(c.files) THEN "return" ELSE "readFile"]

\* one round of the loop of extractFromDirectory, extractFromFile(file,
\* options) having settled with results: c is the state of the call
FileDone(c, results) ==
  IF results.kind = "throw"
  THEN [c EXCEPT
          !.errors = Append(@, c.files[c.i]),
          !.i = @ + 1,
          !.pc = IF c.i = Len(c.files) THEN "return" ELSE "readFile"]
  ELSE [c EXCEPT
          !.allResults = @ \o results.value,
          !.processed = @ + 1,
          !.progress = IF c.options.onProgress
                       THEN Append(@, [current |-> c.processed + 1,
                                       total |-> Len(c.files), file |-> c.files[c.i]])
                       ELSE @,
          !.i = @ + 1,
          !.pc = IF c.i = Len(c.files) THEN "return" ELSE "readFile"]

\* a merge that takes every item for the first of its key
MapHasNever(keyMap, key) == FALSE

\* keyMap.has(key)
MapHas(keyMap, key) == \E i \in 1..Len(keyMap) : keyMap[i].key = key

\* item.hasParams || false
HasParamsOf(item) == IF "hasParams" \in DOMAIN item THEN item.hasParams ELSE FALSE

\* item.params || []
ParamsOrEmpty(item) == IF "params" \in DOMAIN item THEN item.params ELSE <<>>

\* one round of the loop of mergeResults, the Map being the list of its
\* values in insertion order
MergeItem(keyMap, item) ==
  LET map == IF MapHas(keyMap, item.key) THEN keyMap
             ELSE Append(keyMap, [key |-> item.key, occurrences |-> <<>>,
                                  hasParams |-> HasParamsOf(item),
                                  params |-> ParamsOrEmpty(item)])
      entry == CHOOSE i \in 1..Len(map) :
                 map[i].key = item.key /\ \A j \in (i + 1)..Len(map) : map[j].key # item.key
  IN  [map EXCEPT ![entry].occurrences =
         Append(@, [file |-> item.file, line |-> item.line, column |-> item.column])]

\* mergeResults(results)
mergeResults(results) == Fold(MergeItem, <<>>, results)

(***************************************************************************)
(* src/src/plugins/svelte.ts and src/src/plugins/vue.ts.  The environment  *)
(* is [installed, require, env]: the packages that can be resolved,        *)
(* whether require is defined (it is not in an ES module), and the         *)
(* variables of process.env that are set to 'true'.  A component text is   *)
(* [parse, found, matches]: whether the compiler parses it, the items the  *)
(* structural path finds in it and the items the fallback patterns match,  *)
(* both in the order they are found, keys unescaped, cleaned and trimmed.  *)
(***************************************************************************)
M_svelte_compiler == "svelte/compiler"
M_estree_walker == "estree-walker"
M_vue_compiler == "@vue/compiler-sfc"

\* the module object a successful import() gives
Module(specifier) == [type |-> "module", specifier |-> specifier]

\* typeof value, of null or of a module object
TypeOf(value) == "object"

\* await import(specifier): the module, or null for a rejected import
Import(env, specifier) ==
  IF specifier \in env.installed THEN Module(specifier) ELSE Null

\* loadSvelteCompiler, loadEstreeWalker and loadVueCompiler, loaded being the
\* module variable: [loaded, imports], the variable afterwards (which is also
\* what is returned) and the number of import() calls made
Load(env, loaded, specifier) ==
  IF loaded # Null
  THEN [loaded |-> loaded, imports |-> 0]
  ELSE [loaded |-> Import(env, specifier), imports |-> 1]

\* isSvelteAvailable() and isVueAvailable(): require.resolve(specifier)
\* throws when require is not defined or the package is not found; the catch
\* block returns typeof loaded !== 'undefined' || process.env[name] === 'true'
IsAvailable(env, loaded, specifier, name) ==
  IF env.require /\ specifier \in env.installed
  THEN TRUE
  ELSE TypeOf(loaded) # "undefined" \/ name \in env.env

\* if (!key) continue, and the item of a match or of a call found
PluginItems(found, file) ==
  Fold(LAMBDA results, f :
         IF f.key = <<>> THEN results
         ELSE Append(results,
                     KeyParams([key |-> f.key, file |-> file,
                                line |-> f.line, column |-> f.column])),
       <<>>, found)

\* a deduplication that keeps every item
UniqueResultsAll(results) == results

\* const seen = new Set(); for (const item of results) if (!seen.has(item.key))
\* { seen.add(item.key); uniqueResults.push(item) }
UniqueResults(results) ==
  Fold(LAMBDA uniqueResults, item :
         IF \E i \in 1..Len(uniqueResults) : uniqueResults[i].key = item.key
         THEN uniqueResults
         ELSE Append(uniqueResults, item),
       <<>>, results)

\* extractWithRegex(code, file) of svelte.ts and of vue.ts
PluginExtractWithRegex(code, file) == UniqueResults(PluginItems(code.matches, file))

\* extractFromSvelteAST(code, file) after its two loads
extractFromSvelteAST(code, file, compiler, walker) ==
  IF compiler = Null \/ walker = Null THEN <<>>
  ELSE IF code.parse = "throws" THEN <<>>
  ELSE UniqueResults(PluginItems(code.found, file))

\* sveltePlugin.extract(code, file) after the loads
SvelteExtract(code, file, compiler, walker) ==
  LET Results(results) ==
        IF Len(results) > 0 THEN results ELSE PluginExtractWithRegex(code, file)
  IN  Results(extractFromSvelteAST(code, file, compiler, walker))

\* extractFromVueSFC(code, file) after its load, which is what
\* vuePlugin.extract returns
extractFromVueSFC(code, file, compiler) ==
  IF compiler = Null THEN PluginExtractWithRegex(code, file)
  ELSE IF code.parse = "throws" THEN PluginExtractWithRegex(code, file)
  ELSE IF PluginItems(code.found, file) = <<>> THEN PluginExtractWithRegex(code, file)
  ELSE UniqueResults(PluginItems(code.found, file))

(***************************************************************************)
(* The reconciliation functions called on catalogs drawn from small sets.  *)
(***************************************************************************)
VARIABLES
  heap,     \* the objects, by reference
  input,    \* what the calls are made on: [source, target], the references of
            \* the two input catalogs; [code], a source text; [results], a
            \* list of items; [available], the plugins whose isAvailable()
            \* returns true
  call,     \* the last call: its name, arguments and returned value; for an
            \* async function also the await it is suspended at
  fs,       \* the file system: [files, dirs], and the order in which glob
            \* lists a directory
  registeredPlugins,  \* the registered framework plugins, in registry order
  parseCache,      \* parser.ts: the cache of parsed texts, key to reference
  svelteCompiler,  \* svelte.ts: the lazily loaded svelte/compiler, or null
  estreeWalker,    \* svelte.ts: the lazily loaded estree-walker, or null
  vueCompiler      \* vue.ts: the lazily loaded @vue/compiler-sfc, or null

\* the variables of the modules parser.ts, svelte.ts and vue.ts
moduleVars == <<parseCache, svelteCompiler, estreeWalker, vueCompiler>>

vars == <<heap, input, call, fs, registeredPlugins, moduleVars>>

\* the modules as they are when they have been loaded
InitModules ==
  /\ parseCache = <<>>
  /\ svelteCompiler = Null
  /\ estreeWalker = Null
  /\ vueCompiler = Null

K_a == <<"a">>
K_nm == <<"{", "n", "}", "{", "m", "}">>
V_x == <<"x">>
V_mn == <<"{", "m", "}", "{", "n", "}">>
V_n == <<"{", "n", "}">>

\* the keys of the small catalogs, in the order they are inserted
CatalogKeys == <<K_a, K_nm, K_constructor>>

SourceValues(k) == {k, V_n}

TargetValues(k) ==
  IF k = K_a THEN {k, <<>>, V_x, V_n}
  ELSE IF k = K_nm THEN {k, <<>>, V_x, V_mn, V_n}
  ELSE {k, V_x}

\* the objects with at most n of the keys, each with one of its values
CatalogsOf(Values(_), n) ==
  LET all == UNION {Values(k) : k \in Range(CatalogKeys)}
      Object(chosen, f) ==
        LET ks == SelectSeq(CatalogKeys, LAMBDA k : k \in chosen)
        IN  [i \in 1..Len(ks) |-> <<ks[i], Str(f[ks[i]])>>]
  IN  UNION {{Object(chosen, f) :
                f \in {g \in [chosen -> all] : \A k \in chosen : g[k] \in Values(k)}} :
             chosen \in {c \in SUBSET Range(CatalogKeys) : Cardinality(c) <= n}}

SourceCatalogs == CatalogsOf(SourceValues, MaxSourceKeys)
TargetCatalogs == CatalogsOf(TargetValues, MaxTargetKeys)

\* the decimal digits of n < 100, as a key
DecimalKey(n) ==
  IF n < 10 THEN <<CodeUnitOrder[CodeUnit("0") + n]>>
  ELSE <<CodeUnitOrder[CodeUnit("0") + (n \div 10)], CodeUnitOrder[CodeUnit("0") + (n % 10)]>>

\* a catalog of LargeTotal numbered keys, and one translating the first t
LargeSource == [i \in 1..LargeTotal |-> <<DecimalKey(i - 1), Str(DecimalKey(i - 1))>>]
LargeTarget(t) == [i \in 1..t |-> <<DecimalKey(i - 1), Str(V_x)>>]

Options == [flush : BOOLEAN, removeUntranslated : BOOLEAN,
            validateParams : BOOLEAN, returnStats : BOOLEAN]

NoCall == [op |-> "none"]

\* a file system without files
NoFiles == [files |-> [path \in {} |-> <<>>], dirs |-> {}]

InitUpdate ==
  /\ registeredPlugins = <<>>
  /\ InitModules
  /\ heap \in {<<s, t>> : s \in SourceCatalogs, t \in TargetCatalogs}
              \cup {<<s>> : s \in SourceCatalogs}
  /\ input = [source |-> 1, target |-> Len(heap)]
  /\ call = NoCall
  /\ fs = NoFiles

\* updateLocale(source, target, options)
CallUpdateLocale ==
  /\ call = NoCall
  /\ \E options \in Options :
     \E r \in {updateLocale(heap, input.source, input.target, options)} :
       /\ heap' = r.heap
       /\ call' = [op |-> "updateLocale", options |-> options,
                   source |-> input.source, target |-> input.target, ret |-> r.ret]
  /\ UNCHANGED <<input, registeredPlugins, fs, moduleVars>>

\* updateLocale(source, previous, options), previous being the catalog the
\* first call returned
CallUpdateLocaleAgain ==
  /\ call.op = "updateLocale"
  /\ \E r \in {updateLocale(heap, call.source, call.ret.result, call.options)} :
       /\ heap' = r.heap
       /\ call' = [op |-> "updateLocaleAgain", options |-> call.options,
                   source |-> call.source, target |-> call.ret.result,
                   first |-> call.ret, ret |-> r.ret]
  /\ UNCHANGED <<input, registeredPlugins, fs, moduleVars>>

\* mergeLocales(sources, target, options)
CallMergeLocales ==
  /\ call = NoCall
  /\ \E options \in Options :
     \E sources \in {<<input.source>>, <<input.source, input.target>>,
                     <<input.target, input.source>>} :
     \E r \in {mergeLocales(heap, sources, input.target, options)} :
       /\ heap' = r.heap
       /\ call' = [op |-> "mergeLocales", options |-> options,
                   sources |-> sources, target |-> input.target, ret |-> r.ret]
  /\ UNCHANGED <<input, registeredPlugins, fs, moduleVars>>

\* sortKeys(obj)
CallSortKeys ==
  /\ call = NoCall
  /\ \E obj \in {input.source, input.target} :
     \E r \in {sortKeys(heap, obj)} :
       /\ heap' = r.heap
       /\ call' = [op |-> "sortKeys", obj |-> obj, ret |-> r.ref]
  /\ UNCHANGED <<input, registeredPlugins, fs, moduleVars>>

\* cleanUnused(data, options)
CallCleanUnused ==
  /\ call = NoCall
  /\ \E data \in {input.source, input.target} :
     \E removeUntranslated \in BOOLEAN :
     \E r \in {cleanUnused(heap, data, [removeUntranslated |-> removeUntranslated])} :
       /\ heap' = r.heap
       /\ call' = [op |-> "cleanUnused", data |-> data,
                   removeUntranslated |-> removeUntranslated, ret |-> r.ref]
  /\ UNCHANGED <<input, registeredPlugins, fs, moduleVars>>

\* findMissing(source, target)
CallFindMissing ==
  /\ call = NoCall
  /\ call' = [op |-> "findMissing", source |-> input.source, target |-> input.target,
              ret |-> findMissing(heap, input.source, input.target)]
  /\ UNCHANGED <<heap, input, registeredPlugins, fs, moduleVars>>

\* findUnused(source, target)
CallFindUnused ==
  /\ call = NoCall
  /\ call' = [op |-> "findUnused", source |-> input.source, target |-> input.target,
              ret |-> findUnused(heap, input.source, input.target)]
  /\ UNCHANGED <<heap, input, registeredPlugins, fs, moduleVars>>

\* getCoverage(source, target)
CallGetCoverage ==
  /\ call = NoCall
  /\ call' = [op |-> "getCoverage", source |-> input.source, target |-> input.target,
              ret |-> getCoverage(heap, input.source, input.target)]
  /\ UNCHANGED <<heap, input, registeredPlugins, fs, moduleVars>>

NextUpdate ==
  \/ CallUpdateLocale
  \/ CallUpdateLocaleAgain
  \/ CallMergeLocales
  \/ CallSortKeys
  \/ CallCleanUnused
  \/ CallFindMissing
  \/ CallFindUnused
  \/ CallGetCoverage

SpecUpdate == InitUpdate /\ [][NextUpdate]_vars

(***************************************************************************)
(* The read-only queries, on the small catalogs and on a catalog of        *)
(* LargeTotal keys of which any number is translated.                      *)
(***************************************************************************)
InitCoverage ==
  /\ registeredPlugins = <<>>
  /\ InitModules
  /\ heap \in {<<s, t>> : s \in SourceCatalogs, t \in TargetCatalogs}
              \cup {<<LargeSource, LargeTarget(t)>> : t \in 0..LargeTotal}
  /\ input = [source |-> 1, target |-> 2]
  /\ call = NoCall
  /\ fs = NoFiles

NextCoverage ==
  \/ CallGetCoverage
  \/ CallFindMissing
  \/ CallFindUnused

SpecCoverage == InitCoverage /\ [][NextCoverage]_vars

(***************************************************************************)
(* The file functions, on a directory of catalog files.  An async function *)
(* runs up to its next await in one step.                                  *)
(***************************************************************************)
K_b == <<"b">>
K_c == <<"c">>
K_2 == <<"2">>
K_10 == <<"1", "0">>
\* a value that needs every escape
V_q == <<"\"", "\\", "\n">>

\* the entries of the catalogs that are written
FileEntries ==
  {<<K_b, Str(V_x)>>, <<K_a, Str(V_q)>>, <<K_10, Str(V_x)>>, <<K_2, Str(V_x)>>,
   <<K_proto, Str(V_x)>>}

\* the objects with at most n of the entries, created in any order
RECURSIVE ObjectsOf(_, _)
ObjectsOf(entries, n) ==
  IF n = 0 THEN {<<>>}
  ELSE LET smaller == ObjectsOf(entries, n - 1)
       IN  smaller \cup
           {DefineOwn(p[1], p[2][1], p[2][2]) :
              p \in {q \in smaller \X entries : ~HasOwn(q[1], q[2][1])}}

FileCatalogs == ObjectsOf(FileEntries, MaxFileKeys)

SourceFile == "locales/en.json"
TargetFiles == <<"locales/zh.json", "out/ja.json">>
TargetLists ==
  {<<>>, <<TargetFiles[1]>>, <<TargetFiles[1], TargetFiles[2]>>,
   <<TargetFiles[1], TargetFiles[1]>>}

\* a text that is no JSON
Malformed == <<"{">>

\* the texts the source file and the target files start with (none: no file)
SourceTexts ==
  {<<>>, Malformed,
   JSONStringify(<<>>, TRUE) \o <<"\n">>,
   JSONStringify(<<<<K_a, Str(K_a)>>>>, TRUE) \o <<"\n">>,
   JSONStringify(<<<<K_nm, Str(K_nm)>>, <<K_a, Str(K_a)>>>>, TRUE) \o <<"\n">>}

TargetTexts ==
  <<{<<>>,
     JSONStringify(<<<<K_nm, Str(V_n)>>>>, TRUE) \o <<"\n">>,
     JSONStringify(<<<<K_c, Str(V_x)>>, <<K_a, Str(K_a)>>>>, FALSE) \o <<"\n">>},
    {<<>>, JSONStringify(<<>>, TRUE) \o <<"\n">>}>>

\* the file system holding the texts given (<<>>: no such file)
FileSystemOf(source, first, second) ==
  LET text == [path \in {SourceFile, TargetFiles[1], TargetFiles[2]} |->
                 IF path = SourceFile THEN source
                 ELSE IF path = TargetFiles[1] THEN first ELSE second]
      present == {path \in DOMAIN text : text[path] # <<>>}
  IN  [files |-> [path \in present |-> text[path]],
       dirs  |-> {dirname(path) : path \in present}]

WriteOptions == [sort : BOOLEAN, pretty : BOOLEAN]

InitFiles ==
  /\ registeredPlugins = <<>>
  /\ InitModules
  /\ heap = <<>>
  /\ input = [source |-> SourceFile]
  /\ call = NoCall
  /\ fs \in {FileSystemOf(source, first, second) :
               source \in SourceTexts, first \in TargetTexts[1], second \in TargetTexts[2]}

\* writeLocaleFile(filePath, data, options), up to await fs.mkdir(...)
CallWriteLocaleFile ==
  /\ call = NoCall
  /\ \E data \in FileCatalogs :
     \E path \in Range(TargetFiles) :
     \E options \in WriteOptions :
     \E w \in {writeLocaleFile(Alloc(heap, data), Len(heap) + 1, options)} :
       /\ heap' = w.heap
       /\ call' = [op |-> "writeLocaleFile", pc |-> "mkdir", path |-> path,
                   data |-> Len(heap) + 1, options |-> options, text |-> w.text]
  /\ UNCHANGED <<input, registeredPlugins, fs, moduleVars>>

\* fs.mkdir settles: writeLocaleFile goes on to await fs.writeFile(...)
WriteLocaleFileMkdir ==
  /\ call.op = "writeLocaleFile"
  /\ call.pc = "mkdir"
  /\ fs' = mkdir(fs, dirname(call.path))
  /\ call' = [call EXCEPT !.pc = "writeFile"]
  /\ UNCHANGED <<heap, input, registeredPlugins, moduleVars>>

\* fs.writeFile settles: writeLocaleFile is done
WriteLocaleFileWriteFile ==
  /\ call.op = "writeLocaleFile"
  /\ call.pc = "writeFile"
  /\ fs' = writeFile(fs, call.path, call.text)
  /\ call' = [call EXCEPT !.pc = "done"]
  /\ UNCHANGED <<heap, input, registeredPlugins, moduleVars>>

\* readLocaleFile(filePath) of the file just written, or of any file, up to
\* await fs.readFile(...)
CallReadLocaleFile ==
  /\ \/ /\ call.op = "writeLocaleFile"
        /\ call.pc = "done"
        /\ call' = [op |-> "readLocaleFile", pc |-> "readFile", path |-> call.path,
                    written |-> [data |-> call.data, options |-> call.options]]
     \/ /\ call = NoCall
        /\ \E path \in Range(TargetFiles) \cup {SourceFile} :
             call' = [op |-> "readLocaleFile", pc |-> "readFile", path |-> path,
                      written |-> [data |-> 0]]
  /\ UNCHANGED <<heap, input, registeredPlugins, fs, moduleVars>>

\* fs.readFile settles: readLocaleFile returns or throws
ReadLocaleFileReadFile ==
  /\ call.op = "readLocaleFile"
  /\ call.pc = "readFile"
  /\ \E r \in {readLocaleFile(heap, fs, call.path)} :
       /\ heap' = r.heap
       /\ call' = [call EXCEPT !.pc = r.kind] @@ [ret |-> r.ref]
  /\ UNCHANGED <<input, registeredPlugins, fs, moduleVars>>

\* updateLocaleFiles(sourceFile, targetFiles, options), up to the await of
\* readLocaleFile(sourceFile)
CallUpdateLocaleFiles ==
  /\ call = NoCall
  /\ \E targetFiles \in TargetLists :
     \E options \in Options :
       call' = [op |-> "updateLocaleFiles", pc |-> "readSource",
                targetFiles |-> targetFiles, options |-> options,
                before |-> fs.files, source |-> 0, i |-> 1, updated |-> 0,
                text |-> <<>>, results |-> <<>>, log |-> <<>>]
  /\ UNCHANGED <<heap, input, registeredPlugins, fs, moduleVars>>

\* the source file is read: the loop starts with the read of the first target
UpdateLocaleFilesSource ==
  /\ call.op = "updateLocaleFiles"
  /\ call.pc = "readSource"
  /\ \E r \in {readLocaleFile(heap, fs, input.source)} :
       /\ heap' = r.heap
       /\ call' = [call EXCEPT !.source = r.ref,
                               !.pc = IF r.kind = "throw" THEN "throw"
                                      ELSE IF call.targetFiles = <<>> THEN "return"
                                      ELSE "readTarget"]
  /\ UNCHANGED <<input, registeredPlugins, fs, moduleVars>>

\* target i is read: updateLocale, then writeLocaleFile up to its fs.mkdir
UpdateLocaleFilesTarget ==
  /\ call.op = "updateLocaleFiles"
  /\ call.pc = "readTarget"
  /\ \E r \in {readLocaleFile(heap, fs, call.targetFiles[call.i])} :
       \/ /\ r.kind = "throw"
          /\ call' = [call EXCEPT !.pc = "throw"]
          /\ UNCHANGED heap
       \/ /\ r.kind = "return"
          /\ \E u \in {Updated(updateLocale(r.heap, call.source, r.ref, call.options))} :
             \E w \in {writeLocaleFile(u.heap, u.ref, [sort |-> TRUE, pretty |-> TRUE])} :
               /\ heap' = w.heap
               /\ call' = [call EXCEPT !.pc = "mkdir", !.updated = u.ref, !.text = w.text,
                                       !.log = Append(@, <<"read", call.targetFiles[call.i]>>)]
  /\ UNCHANGED <<input, registeredPlugins, fs, moduleVars>>

\* fs.mkdir settles
UpdateLocaleFilesMkdir ==
  /\ call.op = "updateLocaleFiles"
  /\ call.pc = "mkdir"
  /\ fs' = mkdir(fs, dirname(call.targetFiles[call.i]))
  /\ call' = [call EXCEPT !.pc = "writeFile"]
  /\ UNCHANGED <<heap, input, registeredPlugins, moduleVars>>

\* fs.writeFile settles: the entry of target i is pushed, and the loop goes on
UpdateLocaleFilesWriteFile ==
  /\ call.op = "updateLocaleFiles"
  /\ call.pc = "writeFile"
  /\ fs' = writeFile(fs, call.targetFiles[call.i], call.text)
  /\ call' = [call EXCEPT
                !.results = Append(@, [file |-> call.targetFiles[call.i],
                                       keys |-> Len(OwnKeys(heap[call.updated]))]),
                !.log = Append(@, <<"write", call.targetFiles[call.i]>>),
                !.i = @ + 1,
                !.pc = IF call.i = Len(call.targetFiles) THEN "return" ELSE "readTarget"]
  /\ UNCHANGED <<heap, input, registeredPlugins, moduleVars>>

NextFiles ==
  \/ CallWriteLocaleFile
  \/ WriteLocaleFileMkdir
  \/ WriteLocaleFileWriteFile
  \/ CallReadLocaleFile
  \/ ReadLocaleFileReadFile
  \/ CallUpdateLocaleFiles
  \/ UpdateLocaleFilesSource
  \/ UpdateLocaleFilesTarget
  \/ UpdateLocaleFilesMkdir
  \/ UpdateLocaleFilesWriteFile

SpecFiles == InitFiles /\ [][NextFiles]_vars

(***************************************************************************)
(* The extraction functions called on small syntax trees.                  *)
(***************************************************************************)
MaxArguments == 2

K_n == <<"n">>
K_m == <<"m">>
K_x == <<"x">>
K_f == <<"f">>
K_Y == <<"Y">>
K_N == <<"N">>
K_token == <<"{", "n", "}">>
K_braces == <<"}", "{">>

Identifier(name) == [type |-> "Identifier", name |-> name]
StringLiteral(value) == [type |-> "StringLiteral", value |-> value]
NumericLiteral(raw) == [type |-> "NumericLiteral", extra |-> [raw |-> raw]]
TemplateLiteral(raws, expressions) ==
  [type |-> "TemplateLiteral",
   quasis |-> [i \in 1..Len(raws) |-> [type |-> "TemplateElement",
                                       value |-> [raw |-> raws[i]]]],
   expressions |-> expressions]
ObjectProperty(key, value) == [type |-> "ObjectProperty", key |-> key, value |-> value]
SpreadElement(argument) == [type |-> "SpreadElement", argument |-> argument]
ObjectExpression(properties) == [type |-> "ObjectExpression", properties |-> properties]
ConditionalExpression(consequent, alternate) ==
  [type |-> "ConditionalExpression", test |-> Identifier(K_x),
   consequent |-> consequent, alternate |-> alternate]
MemberExpression(property) ==
  [type |-> "MemberExpression", object |-> Identifier(K_x), property |-> property]
CallExpressionNode(callee, arguments, loc) ==
  [type |-> "CallExpression", callee |-> callee, arguments |-> arguments, loc |-> loc]

\* { values: { name, ... } }
ValuesObject(names) ==
  ObjectExpression(<<ObjectProperty(Identifier(S_values),
     ObjectExpression([i \in 1..Len(names) |->
                         ObjectProperty(Identifier(names[i]), Identifier(K_x))]))>>)

Ternaries ==
  {ConditionalExpression(c, a) :
     c, a \in {StringLiteral(K_Y), StringLiteral(K_N), Identifier(K_x),
               TemplateLiteral(<<K_a>>, <<>>)}}

FirstArguments ==
  {StringLiteral(K_a), StringLiteral(K_token), StringLiteral(K_braces),
   TemplateLiteral(<<K_a>>, <<>>), TemplateLiteral(<<K_token>>, <<>>),
   TemplateLiteral(<<K_a, <<>>>>, <<Identifier(K_x)>>),
   Identifier(K_x), NumericLiteral(<<"1">>), ObjectExpression(<<>>), ValuesObject(<<K_n>>)}
  \cup Ternaries

LaterArguments ==
  {StringLiteral(K_a), Identifier(K_x), ObjectExpression(<<>>),
   ValuesObject(<<K_n>>), ValuesObject(<<K_n, K_m>>), ValuesObject(<<K_m, K_n, K_m>>),
   ValuesObject(<<K_proto>>),
   ObjectExpression(<<ObjectProperty(Identifier(S_values), Identifier(K_x))>>),
   ObjectExpression(<<ObjectProperty(Identifier(S_values),
      ObjectExpression(<<ObjectProperty(StringLiteral(K_n), Identifier(K_x))>>))>>),
   ObjectExpression(<<SpreadElement(Identifier(K_x))>>),
   ConditionalExpression(StringLiteral(K_Y), StringLiteral(K_N))}

Callees ==
  {Identifier(S_t), Identifier(S_dollar_t), Identifier(K_f),
   MemberExpression(Identifier(S_t)), MemberExpression(StringLiteral(S_t))}

\* loc.start of a call: Babel counts lines from 1 and columns from 0
Locations == {[start |-> [line |-> 1, column |-> 0]], [start |-> [line |-> 2, column |-> 4]]}

\* the argument lists of at most MaxArguments arguments
ArgumentLists ==
  {<<>>} \cup {<<first>> \o later :
                 first \in FirstArguments,
                 later \in UNION {[1..n -> LaterArguments] : n \in 0..(MaxArguments - 1)}}

Calls ==
  {CallExpressionNode(Identifier(S_t), arguments, loc) :
     arguments \in ArgumentLists, loc \in Locations}
  \cup {CallExpressionNode(callee, <<first>>, [start |-> [line |-> 1, column |-> 0]]) :
          callee \in Callees, first \in {StringLiteral(K_a), Identifier(K_x)}}

\* what the fallback patterns match: the text captured and the text before
\* the match
Match(capture, before) == [capture |-> capture, before |-> before]
MatchLists ==
  {<<>>, <<Match(K_a, <<>>)>>,
   <<Match(K_token, <<"x", "\n", " ">>), Match(K_braces, <<>>)>>,
   <<Match(K_a, <<>>), Match(K_a, <<"$">>)>>,
   <<Match(<<" ", "a", " ", "\n", " ", "b", " ", " ", "c", "\n">>, <<"x">>)>>}

\* the source texts: those both parsers accept, of one call, and some that a
\* parser rejects
Codes ==
  {[js |-> "ok", ts |-> "ok", calls |-> <<c>>, matches |-> <<Match(K_a, <<>>)>>] :
     c \in Calls}
  \cup {[js |-> js, ts |-> ts, calls |-> calls, matches |-> matches] :
          js \in {"ok", "errors", "throws"}, ts \in {"ok", "throws"},
          calls \in {<<>>, <<CallExpressionNode(Identifier(S_t), <<StringLiteral(K_token)>>,
                                                [start |-> [line |-> 1, column |-> 0]])>>},
          matches \in MatchLists}

\* the templates: the strings the patterns of parseTemplate capture in them,
\* in the order of the matches
Templates ==
  {[keys |-> keys] :
     keys \in {<<>>, <<K_a>>, <<K_token, K_a>>, <<K_braces>>, <<K_a, K_token, K_a>>}}

ExtractOptions ==
  [fallbackToRegex : BOOLEAN,
   functionNames : {Undefined, [t |-> "array", v |-> <<K_f>>]}]

F_a_js == <<"a", ".", "j", "s">>

InitCalls ==
  /\ registeredPlugins = <<>>
  /\ InitModules
  /\ heap = <<>>
  /\ input \in {[code |-> code] : code \in Codes} \cup {[code |-> t] : t \in Templates}
  /\ call = NoCall
  /\ fs = NoFiles

\* extractFromAST(parseJavaScript(code), { functionNames })
CallExtractFromAST ==
  /\ call = NoCall
  /\ "js" \in DOMAIN input.code
  /\ parseJavaScript(input.code, FALSE).kind = "return"
  /\ \E options \in ExtractOptions :
       call' = [op |-> "extractFromAST", options |-> options,
                ret |-> extractFromAST(parseJavaScript(input.code, FALSE).value,
                                       options.functionNames)]
  /\ UNCHANGED <<heap, input, registeredPlugins, fs, moduleVars>>

\* extract(code, file, options)
CallExtract ==
  /\ call = NoCall
  /\ "js" \in DOMAIN input.code
  /\ \E options \in ExtractOptions :
       call' = [op |-> "extract", options |-> options,
                ret |-> extract(input.code, F_a_js, options)]
  /\ UNCHANGED <<heap, input, registeredPlugins, fs, moduleVars>>

\* extractFromTypescript(code, file, options)
CallExtractFromTypescript ==
  /\ call = NoCall
  /\ "js" \in DOMAIN input.code
  /\ \E options \in ExtractOptions :
       call' = [op |-> "extractFromTypescript", options |-> options,
                ret |-> extractFromTypescript(input.code, F_a_js, options)]
  /\ UNCHANGED <<heap, input, registeredPlugins, fs, moduleVars>>

\* extractFromTemplate(template, file)
CallExtractFromTemplate ==
  /\ call = NoCall
  /\ "keys" \in DOMAIN input.code
  /\ call' = [op |-> "extractFromTemplate",
              ret |-> [kind |-> "return",
                       value |-> extractFromTemplate(input.code, F_a_js)]]
  /\ UNCHANGED <<heap, input, registeredPlugins, fs, moduleVars>>

NextCalls ==
  \/ CallExtractFromAST
  \/ CallExtract
  \/ CallExtractFromTypescript
  \/ CallExtractFromTemplate

SpecCalls == InitCalls /\ [][NextCalls]_vars

(***************************************************************************)
(* The registry functions and extractFromFile called with a few plugins,   *)
(* on a directory that holds one file of every extension.                  *)
(***************************************************************************)
N_svelte == <<"s", "v", "e", "l", "t", "e">>
N_vue == <<"v", "u", "e">>
N_custom == <<"c", "u", "s", "t", "o", "m">>
N_none == <<"n", "o", "n", "e">>

\* the plugin objects: two of them are named svelte
Plugins ==
  {[id |-> 1, name |-> N_svelte, extensions |-> <<E_svelte>>, extract |-> "returns"],
   [id |-> 2, name |-> N_vue, extensions |-> <<E_vue, E_ts>>, extract |-> "returns"],
   [id |-> 3, name |-> N_svelte, extensions |-> <<E_svelte, E_js, E_ts>>,
    extract |-> "returns"],
   [id |-> 4, name |-> N_custom, extensions |-> <<E_ts, E_vue>>, extract |-> "throws"]}

PluginIds == {p.id : p \in Plugins}

\* a text in TypeScript, which the JavaScript parser rejects: t('a')
TypedCode ==
  [js |-> "throws", ts |-> "ok",
   calls |-> <<CallExpressionNode(Identifier(S_t), <<StringLiteral(K_a)>>,
                                  [start |-> [line |-> 1, column |-> 0]])>>,
   matches |-> <<Match(K_token, <<>>)>>]

\* a text that both parsers reject
BrokenCode == [js |-> "throws", ts |-> "throws", calls |-> <<>>,
               matches |-> <<Match(K_x, <<>>)>>]

\* a.<extension>
FileOf(ext) == <<"a">> \o ext

E_md == <<".", "m", "d">>
ExtensionFiles ==
  <<FileOf(E_ts), FileOf(E_tsx), FileOf(E_js), FileOf(E_jsx), FileOf(E_mjs), FileOf(E_cjs),
    FileOf(E_svelte), FileOf(E_vue), FileOf(E_md), <<"a">>, E_ts>>

\* the async call that is suspended, NoCall when there is none
PendingOf(c) == IF "pending" \in DOMAIN c THEN c.pending ELSE NoCall

InitPlugins ==
  /\ registeredPlugins = <<>>
  /\ InitModules
  /\ heap = <<>>
  /\ input = [available |-> PluginIds]
  /\ call = NoCall
  /\ fs = [files |-> [path \in Range(ExtensionFiles) |-> TypedCode],
           dirs |-> {}, order |-> ExtensionFiles]

\* what isAvailable() of a plugin returns changes
SetAvailable ==
  /\ \E id \in PluginIds :
       input' = [input EXCEPT !.available =
                   IF id \in @ THEN @ \ {id} ELSE @ \cup {id}]
  /\ UNCHANGED <<heap, call, registeredPlugins, fs, moduleVars>>

\* registerPlugin(plugin)
CallRegisterPlugin ==
  /\ \E plugin \in Plugins :
       /\ registeredPlugins' = registerPlugin(registeredPlugins, plugin)
       /\ call' = [op |-> "registerPlugin", plugin |-> plugin, pending |-> PendingOf(call)]
  /\ UNCHANGED <<heap, input, fs, moduleVars>>

\* unregisterPlugin(name)
CallUnregisterPlugin ==
  /\ \E name \in {p.name : p \in Plugins} \cup {N_none} :
       /\ registeredPlugins' = unregisterPlugin(registeredPlugins, name)
       /\ call' = [op |-> "unregisterPlugin", name |-> name, pending |-> PendingOf(call)]
  /\ UNCHANGED <<heap, input, fs, moduleVars>>

\* getRegisteredPlugins()
CallGetRegisteredPlugins ==
  /\ call' = [op |-> "getRegisteredPlugins", ret |-> getRegisteredPlugins(registeredPlugins),
              pending |-> PendingOf(call)]
  /\ UNCHANGED <<heap, input, registeredPlugins, fs, moduleVars>>

\* extractFromFile(filePath, options), up to await fs.readFile(...)
CallExtractFromFile ==
  /\ PendingOf(call) = NoCall
  /\ \E filePath \in Range(ExtensionFiles) :
     \E fallbackToRegex \in BOOLEAN :
       call' = [op |-> "extractFromFile",
                pending |-> [filePath |-> filePath,
                             options |-> [fallbackToRegex |-> fallbackToRegex,
                                          functionNames |-> Undefined]]]
  /\ UNCHANGED <<heap, input, registeredPlugins, fs, moduleVars>>

\* fs.readFile settles: extractFromFile goes on to its end
ExtractFromFileReadFile ==
  /\ PendingOf(call) # NoCall
  /\ call' = [op |-> "extractFromFile", filePath |-> call.pending.filePath,
              options |-> call.pending.options,
              ret |-> extractFromFile(fs, registeredPlugins, input.available,
                                      call.pending.filePath, call.pending.options),
              pending |-> NoCall]
  /\ UNCHANGED <<heap, input, registeredPlugins, fs, moduleVars>>

NextPlugins ==
  \/ SetAvailable
  \/ CallRegisterPlugin
  \/ CallUnregisterPlugin
  \/ CallGetRegisteredPlugins
  \/ CallExtractFromFile
  \/ ExtractFromFileReadFile

SpecPlugins == InitPlugins /\ [][NextPlugins]_vars

(***************************************************************************)
(* extractFromDirectory called on directories of at most MaxFiles files,   *)
(* some of which cannot be read or parsed.                                 *)
(***************************************************************************)
MaxFiles == 3

\* a text both parsers accept: t('<key>')
CodeOf(key) ==
  [js |-> "ok", ts |-> "ok",
   calls |-> <<CallExpressionNode(Identifier(S_t), <<StringLiteral(key)>>,
                                  [start |-> [line |-> 1, column |-> 0]])>>,
   matches |-> <<Match(key, <<>>)>>]

F_a_ts == FileOf(E_ts)
F_b_js == <<"b">> \o E_js
F_c_vue == <<"c">> \o E_vue
F_dist_d_js == D_dist \o <<"/", "d">> \o E_js

\* the files a directory may hold, in the order glob lists them
DirectoryOrder == <<F_a_ts, F_b_js, F_c_vue, F_dist_d_js>>

\* what a file may hold
ContentsOf(path) ==
  IF path = F_a_ts THEN {CodeOf(K_a), BrokenCode, Unreadable}
  ELSE IF path = F_b_js THEN {CodeOf(K_b), BrokenCode, Unreadable}
  ELSE IF path = F_c_vue THEN {CodeOf(K_c), Unreadable}
  ELSE {CodeOf(K_x)}

Directories ==
  UNION {[present -> UNION {ContentsOf(path) : path \in present}] :
           present \in {s \in SUBSET Range(DirectoryOrder) : Cardinality(s) <= MaxFiles}}

\* the pattern **/*<extension>
FilesOf(ext) == [kind |-> "files", extensions |-> {ext}]

DirectoryOptions ==
  [include : {Undefined, Str(FilesOf(E_js)),
              [t |-> "array", v |-> <<FilesOf(E_js), FilesOf(E_ts)>>],
              [t |-> "array", v |-> <<FilesOf(E_vue), FilesOf(E_js)>>]},
   exclude : {Undefined, [t |-> "array", v |-> <<>>]},
   onProgress : BOOLEAN,
   fallbackToRegex : BOOLEAN,
   functionNames : {Undefined}]

InitDirectory ==
  /\ registeredPlugins \in
       {<<>>} \cup {<<p>> : p \in {q \in Plugins : q.id \in {2, 4}}}
  /\ InitModules
  /\ heap = <<>>
  /\ input \in {[available |-> a] : a \in SUBSET {2, 4}}
  /\ call = NoCall
  /\ fs \in {[files |-> files, dirs |-> {}, order |-> DirectoryOrder] :
               files \in {d \in Directories :
                            \A path \in DOMAIN d : d[path] \in ContentsOf(path)}}

\* what isAvailable() of a registered plugin returns changes while
\* extractFromDirectory is suspended
AvailabilityChanges ==
  /\ call # NoCall
  /\ call.pc = "readFile"
  /\ \E i \in 1..Len(registeredPlugins) :
       input' = [input EXCEPT !.available =
                   IF registeredPlugins[i].id \in @ THEN @ \ {registeredPlugins[i].id}
                   ELSE @ \cup {registeredPlugins[i].id}]
  /\ UNCHANGED <<heap, call, registeredPlugins, fs, moduleVars>>

\* extractFromDirectory(dir, options), up to await glob(...)
CallExtractFromDirectory ==
  /\ call = NoCall
  /\ \E options \in DirectoryOptions :
       call' = [op |-> "extractFromDirectory", pc |-> "glob", options |-> options,
                files |-> <<>>, i |-> 1, allResults |-> <<>>, processed |-> 0,
                progress |-> <<>>, errors |-> <<>>, settled |-> <<>>]
  /\ UNCHANGED <<heap, input, registeredPlugins, fs, moduleVars>>

\* glob settles: extractFromDirectory goes on to await extractFromFile(...)
\* of the first file, or returns when there is no file
ExtractFromDirectoryGlob ==
  /\ call # NoCall
  /\ call.pc = "glob"
  /\ \E files \in {Enumerate(fs, call.options)} :
       call' = [call EXCEPT !.files = files,
                            !.pc = IF files = <<>> THEN "return" ELSE "readFile"]
  /\ UNCHANGED <<heap, input, registeredPlugins, fs, moduleVars>>

\* extractFromFile(file, options) settles: extractFromDirectory goes on to
\* the next file, or returns after the last one; settled keeps what each
\* extractFromFile settled with
ExtractFromDirectoryFile ==
  /\ call # NoCall
  /\ call.pc = "readFile"
  /\ \E results \in {extractFromFile(fs, registeredPlugins, input.available,
                                     call.files[call.i], call.options)} :
       call' = [FileDone(call, results) EXCEPT !.settled = Append(@, results)]
  /\ UNCHANGED <<heap, input, registeredPlugins, fs, moduleVars>>

NextDirectory ==
  \/ AvailabilityChanges
  \/ CallExtractFromDirectory
  \/ ExtractFromDirectoryGlob
  \/ ExtractFromDirectoryFile

SpecDirectory == InitDirectory /\ [][NextDirectory]_vars

(***************************************************************************)
(* mergeResults called on lists of at most MaxItems items.                 *)
(***************************************************************************)
MaxItems == 3

Positions == [key : {K_a, K_token}, file : {F_a_ts, F_b_js}, line : {1, 2}, column : {1}]

\* the items: hasParams and params are optional
Items ==
  Positions
  \cup {WithParams(item, <<K_n>>) : item \in Positions}
  \cup {item @@ [hasParams |-> FALSE, params |-> <<>>] : item \in Positions}

InitMerge ==
  /\ registeredPlugins = <<>>
  /\ InitModules
  /\ heap = <<>>
  /\ input \in {[results |-> results] :
                  results \in UNION {[1..n -> Items] : n \in 0..MaxItems}}
  /\ call = NoCall
  /\ fs = NoFiles

\* mergeResults(results)
CallMergeResults ==
  /\ call = NoCall
  /\ call' = [op |-> "mergeResults", ret |-> mergeResults(input.results)]
  /\ UNCHANGED <<heap, input, registeredPlugins, fs, moduleVars>>

NextMerge == CallMergeResults

SpecMerge == InitMerge /\ [][NextMerge]_vars

(***************************************************************************)
(* updateLocale applied again and again to the catalog it returned, as a   *)
(* translation workflow does that runs the update on every build.          *)
(***************************************************************************)
MaxApplications == 3

\* target = updateLocale(source, target, options), the first time on the
\* input catalog
CallUpdateLocaleOnResult ==
  /\ call.op \in {"none", "updateLocaleOnResult"}
  /\ call.op = "updateLocaleOnResult" => Len(call.results) < MaxApplications
  /\ \E options \in (IF call = NoCall THEN Options ELSE {call.options}) :
     \E results \in {IF call = NoCall THEN <<>> ELSE call.results} :
     \E target \in {IF results = <<>> THEN input.target ELSE results[Len(results)]} :
     \E r \in {updateLocale(heap, input.source, target, options)} :
       /\ heap' = r.heap
       /\ call' = [op |-> "updateLocaleOnResult", options |-> options,
                   results |-> Append(results, r.ret.result)]
  /\ UNCHANGED <<input, registeredPlugins, fs, moduleVars>>

NextRepeat == CallUpdateLocaleOnResult

SpecRepeat == InitUpdate /\ [][NextRepeat]_vars

(***************************************************************************)
(* parseJavaScript called again and again on one text, with and without    *)
(* the cache, and clearParseCache.  The calls made so far are kept.        *)
(***************************************************************************)
MaxCalls == 3

ParseOptions == [cache : BOOLEAN, errorRecovery : BOOLEAN]

\* a text without diagnostics, one Babel recovers from, one it rejects
CachedCodes ==
  {[js |-> js, ts |-> "ok", matches |-> <<>>,
    calls |-> <<CallExpressionNode(Identifier(S_t), <<StringLiteral(K_a)>>,
                                   [start |-> [line |-> 1, column |-> 0]])>>] :
     js \in {"ok", "errors", "throws"}}

InitCache ==
  /\ registeredPlugins = <<>>
  /\ InitModules
  /\ heap = <<>>
  /\ input \in {[code |-> code] : code \in CachedCodes}
  /\ call = NoCall
  /\ fs = NoFiles

\* the calls made so far
LogOf(c) == IF c = NoCall THEN <<>> ELSE c.log

\* parseJavaScript(code, options)
CallParseJavaScript ==
  /\ Len(LogOf(call)) < MaxCalls
  /\ \E options \in ParseOptions :
     \E r \in {parseJavaScriptCached(heap, parseCache, input.code, options)} :
       /\ heap' = r.heap
       /\ parseCache' = r.cache
       /\ call' = [op |-> "parseJavaScript",
                   log |-> Append(LogOf(call),
                                  [op |-> "parseJavaScript", options |-> options,
                                   ret |-> r.ret, objects |-> Len(heap),
                                   before |-> parseCache, after |-> r.cache])]
  /\ UNCHANGED <<input, registeredPlugins, fs, svelteCompiler, estreeWalker, vueCompiler>>

\* clearParseCache()
CallClearParseCache ==
  /\ Len(LogOf(call)) < MaxCalls
  /\ parseCache' = clearParseCache(parseCache)
  /\ call' = [op |-> "clearParseCache",
              log |-> Append(LogOf(call), [op |-> "clearParseCache"])]
  /\ UNCHANGED <<heap, input, registeredPlugins, fs, svelteCompiler, estreeWalker,
                 vueCompiler>>

NextCache ==
  \/ CallParseJavaScript
  \/ CallClearParseCache

SpecCache == InitCache /\ [][NextCache]_vars

(***************************************************************************)
(* The Svelte and the Vue plugin in one process: isAvailable() and         *)
(* extract(), called one after the other; an extract is suspended at each  *)
(* of its loads.  The number of import() calls made so far is kept.        *)
(***************************************************************************)
MaxExtracts == 2

Specifiers == {M_svelte_compiler, M_estree_walker, M_vue_compiler}

E_SVELTE_AVAILABLE == "SVELTE_AVAILABLE"
E_VUE_AVAILABLE == "VUE_AVAILABLE"

Environments ==
  [installed : SUBSET Specifiers, require : BOOLEAN,
   env : SUBSET {E_SVELTE_AVAILABLE, E_VUE_AVAILABLE}]

\* what is found in a component: a key and the place it is found at
Found(key, line, column) == [key |-> key, line |-> line, column |-> column]

\* the component texts: {$t('a')} is matched by three patterns
Components ==
  [parse : {"ok", "throws"},
   found : {<<>>, <<Found(K_a, 1, 1), Found(K_a, 1, 2), Found(K_token, 2, 1)>>},
   matches : {<<>>, <<Found(K_a, 1, 1), Found(K_a, 1, 2), Found(K_a, 1, 3),
                      Found(<<>>, 2, 1), Found(K_x, 3, 1)>>}]

F_c_svelte == <<"c", ".", "s", "v", "e", "l", "t", "e">>

InitLazy ==
  /\ registeredPlugins = <<>>
  /\ InitModules
  /\ heap = <<>>
  /\ input \in Environments
  /\ call = NoCall
  /\ fs = NoFiles

\* the import() calls made so far, by specifier
ImportsOf(c) ==
  IF "imports" \in DOMAIN c THEN c.imports ELSE [specifier \in Specifiers |-> 0]

\* the extract calls made so far
ExtractsOf(c) == IF "extracts" \in DOMAIN c THEN c.extracts ELSE 0

\* no extract is suspended
Settled(c) == "pc" \in DOMAIN c => c.pc = "return"

\* sveltePlugin.isAvailable()
CallSvelteIsAvailable ==
  /\ Settled(call)
  /\ call' = [op |-> "svelte.isAvailable", imports |-> ImportsOf(call),
              extracts |-> ExtractsOf(call),
              ret |-> IsAvailable(input, svelteCompiler, M_svelte_compiler,
                                  E_SVELTE_AVAILABLE)]
  /\ UNCHANGED <<heap, input, registeredPlugins, fs, moduleVars>>

\* vuePlugin.isAvailable()
CallVueIsAvailable ==
  /\ Settled(call)
  /\ call' = [op |-> "vue.isAvailable", imports |-> ImportsOf(call),
              extracts |-> ExtractsOf(call),
              ret |-> IsAvailable(input, vueCompiler, M_vue_compiler, E_VUE_AVAILABLE)]
  /\ UNCHANGED <<heap, input, registeredPlugins, fs, moduleVars>>

\* sveltePlugin.extract(code, file) up to await loadSvelteCompiler()
CallSvelteExtract ==
  /\ Settled(call)
  /\ ExtractsOf(call) < MaxExtracts
  /\ \E code \in Components :
       call' = [op |-> "svelte.extract", code |-> code, pc |-> "loadSvelteCompiler",
                imports |-> ImportsOf(call), extracts |-> ExtractsOf(call) + 1]
  /\ UNCHANGED <<heap, input, registeredPlugins, fs, moduleVars>>

\* loadSvelteCompiler() settles
SvelteExtractCompiler ==
  /\ call.op = "svelte.extract"
  /\ call.pc = "loadSvelteCompiler"
  /\ \E r \in {Load(input, svelteCompiler, M_svelte_compiler)} :
       /\ svelteCompiler' = r.loaded
       /\ call' = [call EXCEPT !.pc = "loadEstreeWalker",
                               !.imports[M_svelte_compiler] = @ + r.imports]
  /\ UNCHANGED <<heap, input, registeredPlugins, fs, parseCache, estreeWalker,
                 vueCompiler>>

\* loadEstreeWalker() settles and sveltePlugin.extract returns
SvelteExtractWalker ==
  /\ call.op = "svelte.extract"
  /\ call.pc = "loadEstreeWalker"
  /\ \E r \in {Load(input, estreeWalker, M_estree_walker)} :
       /\ estreeWalker' = r.loaded
       /\ call' = [call EXCEPT !.pc = "return",
                               !.imports[M_estree_walker] = @ + r.imports]
                  @@ [ret |-> [kind  |-> "return",
                               value |-> SvelteExtract(call.code, F_c_svelte,
                                                       svelteCompiler, r.loaded)]]
  /\ UNCHANGED <<heap, input, registeredPlugins, fs, parseCache, svelteCompiler,
                 vueCompiler>>

\* vuePlugin.extract(code, file) up to await loadVueCompiler()
CallVueExtract ==
  /\ Settled(call)
  /\ ExtractsOf(call) < MaxExtracts
  /\ \E code \in Components :
       call' = [op |-> "vue.extract", code |-> code, pc |-> "loadVueCompiler",
                imports |-> ImportsOf(call), extracts |-> ExtractsOf(call) + 1]
  /\ UNCHANGED <<heap, input, registeredPlugins, fs, moduleVars>>

\* loadVueCompiler() settles and vuePlugin.extract returns
VueExtractCompiler ==
  /\ call.op = "vue.extract"
  /\ call.pc = "loadVueCompiler"
  /\ \E r \in {Load(input, vueCompiler, M_vue_compiler)} :
       /\ vueCompiler' = r.loaded
       /\ call' = [call EXCEPT !.pc = "return",
                               !.imports[M_vue_compiler] = @ + r.imports]
                  @@ [ret |-> [kind  |-> "return",
                               value |-> extractFromVueSFC(call.code, F_c_vue, r.loaded)]]
  /\ UNCHANGED <<heap, input, registeredPlugins, fs, parseCache, svelteCompiler,
                 estreeWalker>>

NextLazy ==
  \/ CallSvelteIsAvailable
  \/ CallVueIsAvailable
  \/ CallSvelteExtract
  \/ SvelteExtractCompiler
  \/ SvelteExtractWalker
  \/ CallVueExtract
  \/ VueExtractCompiler

SpecLazy == InitLazy /\ [][NextLazy]_vars

(***************************************************************************)
(* Properties of the reconciliation engine.                                *)
(***************************************************************************)
\* the own keys of an object, as a set
KeySet(o) == Range(OwnKeys(o))

\* an object as a key-to-value map: its own entries, their order forgotten
AsMap(o) == Range(o)

\* C1: with flush and validateParams off (removeUntranslated either way), a
\* second updateLocale of the same source over the result of the first returns
\* the same key-to-value map as the first
C1_SecondPassChangesNothing ==
  (/\ call.op = "updateLocaleAgain"
   /\ ~call.options.flush
   /\ ~call.options.validateParams)
  => AsMap(heap[call.ret.result]) = AsMap(heap[call.first.result])

\* a second pass without flush and validateParams, after a first pass that
\* overwrote an untranslated entry and added a key
C1_Witness ==
  /\ call.op = "updateLocaleAgain"
  /\ ~call.options.flush
  /\ ~call.options.validateParams
  /\ call.options.removeUntranslated
  /\ \E k \in KeySet(heap[input.target]) :
        OwnValue(heap[input.target], k) # OwnValue(heap[call.first.result], k)
  /\ KeySet(heap[call.first.result]) # KeySet(heap[input.target])

\* C2: with removeUntranslated and validateParams off, the result of
\* updateLocale holds, for every key of source, target's value if target has
\* the key and source's value otherwise; for every key of target that source
\* lacks, target's value when flush is off and nothing when flush is on; and
\* no other key
C2_ResultMap ==
  (/\ call.op = "updateLocale"
   /\ ~call.options.removeUntranslated
   /\ ~call.options.validateParams)
  => LET source == heap[call.source]
         target == heap[call.target]
         result == heap[call.ret.result]
     IN  /\ \A k \in KeySet(source) :
              /\ HasOwn(result, k)
              /\ OwnValue(result, k) = IF HasOwn(target, k) THEN OwnValue(target, k)
                                       ELSE OwnValue(source, k)
         /\ \A k \in KeySet(target) \ KeySet(source) :
              IF call.options.flush THEN ~HasOwn(result, k)
              ELSE HasOwn(result, k) /\ OwnValue(result, k) = OwnValue(target, k)
         /\ KeySet(result) \subseteq KeySet(source) \cup KeySet(target)

\* C3: the keys findUnused returns are exactly the keys present in
\* updateLocale's result without flush and absent from its result with flush,
\* and the two results agree on every other key and value
C3_UnusedAreTheFlushed ==
  call.op = "findUnused"
  => LET kept    == updateLocaleBody(heap, call.source, call.target,
                      [flush |-> FALSE, removeUntranslated |-> FALSE,
                       validateParams |-> FALSE, returnStats |-> FALSE])
         flushed == updateLocaleBody(heap, call.source, call.target,
                      [flush |-> TRUE, removeUntranslated |-> FALSE,
                       validateParams |-> FALSE, returnStats |-> FALSE])
         keptMap    == kept.heap[kept.result]
         flushedMap == flushed.heap[flushed.result]
     IN  /\ Range(call.ret) = KeySet(keptMap) \ KeySet(flushedMap)
         /\ KeySet(flushedMap) \subseteq KeySet(keptMap)
         /\ \A k \in KeySet(flushedMap) : OwnValue(flushedMap, k) = OwnValue(keptMap, k)

\* findUnused returned a key, of a target that also has a key of source
C3_Witness ==
  /\ call.op = "findUnused"
  /\ call.ret # <<>>
  /\ KeySet(heap[call.target]) \cap KeySet(heap[call.source]) # {}

\* C4: updateLocale, mergeLocales, sortKeys and cleanUnused leave every object
\* that exists when they are called (source, target, the sources, data) with
\* the keys and values it has
C4_InputsNotMutated ==
  [][\A r \in 1..Len(heap) : heap'[r] = heap[r]]_vars

\* mergeLocales of two catalogs returned a map that differs from both
C4_Witness ==
  /\ call.op = "mergeLocales"
  /\ Len(call.sources) = 2
  /\ call.options.flush
  /\ heap[call.ret.result] # heap[input.source]
  /\ heap[call.ret.result] # heap[input.target]

\* two lists hold the same names, each as often: they are equal once sorted
SameNames(a, b) ==
  \A x \in Range(a) \cup Range(b) :
     Cardinality({i \in 1..Len(a) : a[i] = x}) = Cardinality({i \in 1..Len(b) : b[i] = x})

\* target has key k with the value k and removeUntranslated is set: the entry
\* the untranslated branch overwrites
Overwritten(options, target, k) ==
  options.removeUntranslated /\ HasOwn(target, k) /\ OwnValue(target, k) = Str(k)

\* C5: under validateParams, a source key with a {name} token that target has
\* and the untranslated branch does not take gets the marker '[PARAM_MISMATCH] '
\* followed by the whole of target's value when the placeholder names of
\* source's and target's values differ as sorted lists, and target's value
\* when they do not
C5_MismatchKeepsOriginal ==
  (call.op = "updateLocale" /\ call.options.validateParams)
  => LET source == heap[call.source]
         target == heap[call.target]
         result == heap[call.ret.result]
     IN  \A k \in KeySet(source) :
           (hasParams(k) /\ HasOwn(target, k) /\ ~Overwritten(call.options, target, k))
           => OwnValue(result, k) =
                IF SameNames(execAll(OwnValue(source, k).v), execAll(OwnValue(target, k).v))
                THEN OwnValue(target, k)
                ELSE Str(<<"[", "P", "A", "R", "A", "M", "_", "M", "I", "S", "M", "A", "T",
                           "C", "H", "]", " ">> \o OwnValue(target, k).v)

\* one call under validateParams marked an entry; here the same placeholders
\* in another order are left alone
C5_WitnessSameNames ==
  /\ call.op = "updateLocale"
  /\ call.options.validateParams
  /\ HasOwn(heap[call.target], K_nm)
  /\ HasOwn(heap[call.source], K_nm)
  /\ OwnValue(heap[call.source], K_nm) = Str(K_nm)
  /\ OwnValue(heap[call.target], K_nm) = Str(V_mn)
  /\ OwnValue(heap[call.ret.result], K_nm) = Str(V_mn)

\* an entry whose placeholders differ was marked
C5_Witness ==
  /\ call.op = "updateLocale"
  /\ call.options.validateParams
  /\ HasOwn(heap[call.target], K_nm)
  /\ HasOwn(heap[call.source], K_nm)
  /\ OwnValue(heap[call.target], K_nm) = Str(V_n)
  /\ OwnValue(heap[call.ret.result], K_nm) = Str(PARAM_MISMATCH \o V_n)

\* C6: under removeUntranslated, a source key that target has with the key as
\* its value gets source's value, also under validateParams (no marker), and
\* is counted neither as added nor as unchanged
C6_UntranslatedOverwritten ==
  (call.op = "updateLocale" /\ call.options.removeUntranslated)
  => LET source == heap[call.source]
         target == heap[call.target]
         result == heap[call.ret.result]
         untranslated == {k \in KeySet(source) : Overwritten(call.options, target, k)}
     IN  /\ \A k \in untranslated : OwnValue(result, k) = OwnValue(source, k)
         /\ call.options.returnStats
            => call.ret.stats.added + call.ret.stats.unchanged
                 <= Cardinality(KeySet(source)) - Cardinality(untranslated)

\* under removeUntranslated and validateParams, an untranslated entry whose
\* placeholders differ from those of source's value was overwritten
C6_Witness ==
  /\ call.op = "updateLocale"
  /\ call.options.removeUntranslated
  /\ call.options.validateParams
  /\ call.options.returnStats
  /\ HasOwn(heap[call.source], K_nm)
  /\ HasOwn(heap[call.target], K_nm)
  /\ OwnValue(heap[call.source], K_nm) = Str(V_n)
  /\ OwnValue(heap[call.target], K_nm) = Str(K_nm)
  /\ OwnValue(heap[call.ret.result], K_nm) = Str(V_n)

\* C7: with returnStats, total is the number of keys of source, added the
\* number of source keys target lacks, removed the number of target keys
\* source lacks under flush and 0 otherwise, unchanged the number of source
\* keys target has that were neither overwritten as untranslated nor marked
C7_Stats ==
  (call.op = "updateLocale" /\ call.options.returnStats)
  => LET source == heap[call.source]
         target == heap[call.target]
         stats  == call.ret.stats
         Marked(k) ==
           /\ call.options.validateParams
           /\ hasParams(k)
           /\ ~Overwritten(call.options, target, k)
           /\ ~SameNames(execAll(OwnValue(source, k).v), execAll(OwnValue(target, k).v))
     IN  /\ stats.total = Cardinality(KeySet(source))
         /\ stats.added = Cardinality(KeySet(source) \ KeySet(target))
         /\ stats.removed = IF call.options.flush
                            THEN Cardinality(KeySet(target) \ KeySet(source))
                            ELSE 0
         /\ stats.unchanged =
              Cardinality({k \in KeySet(source) \cap KeySet(target) :
                             ~Overwritten(call.options, target, k) /\ ~Marked(k)})

\* C8: getCoverage returns the number of source keys as total, the number of
\* source keys target has with a value that is neither empty nor the key as
\* translated, total - translated as missing, and as percentage
\* 100 * translated / total rounded to the nearest integer (a half going up),
\* or 100 when total is 0; the percentage is between 0 and 100
C8_Coverage ==
  call.op = "getCoverage"
  => LET source == heap[call.source]
         target == heap[call.target]
         total == Cardinality(KeySet(source))
         translated == Cardinality({k \in KeySet(source) :
                          /\ HasOwn(target, k)
                          /\ OwnValue(target, k) # Str(<<>>)
                          /\ OwnValue(target, k) # Str(k)})
     IN  /\ call.ret.total = total
         /\ call.ret.translated = translated
         /\ call.ret.missing = total - translated
         /\ call.ret.percentage = IF total = 0 THEN 100
                                  ELSE (200 * translated + total) \div (2 * total)
         /\ call.ret.percentage \in 0..100

(***************************************************************************)
(* Properties of the file functions.                                       *)
(***************************************************************************)
\* C9: once writeLocaleFile(path, data, options) has completed,
\* readLocaleFile(path) returns a map with exactly the keys and values of
\* data, its keys in data's order when sort is off and in sorted order when
\* sort is on
C9_WriteReadRoundTrip ==
  (/\ call.op = "readLocaleFile"
   /\ call.pc # "readFile"
   /\ call.written.data # 0)
  => /\ call.pc = "return"
     /\ AsMap(heap[call.ret]) = AsMap(heap[call.written.data])
     /\ OwnKeys(heap[call.ret]) =
          IF call.written.options.sort
          THEN SortLocale(OwnKeys(heap[call.written.data]))
          ELSE OwnKeys(heap[call.written.data])

\* the catalog a file holds: {} when there is no such file
CatalogOf(files, path) ==
  IF path \in DOMAIN files THEN JSONParse(files[path]).value.v ELSE <<>>

\* the catalog updateLocale makes of two catalogs
Reconciled(source, target, options) ==
  LET body == updateLocaleBody(<<source, target>>, 1, 2, options)
  IN  body.heap[body.result]

\* the catalogs of the target files once the targets listed have been
\* reconciled one after another, starting from the files given
ReconciledFiles(files, targetFiles, options) ==
  Fold(LAMBDA catalogs, path :
         [catalogs EXCEPT ![path] =
            Reconciled(CatalogOf(files, SourceFile), catalogs[path], options)],
       [path \in Range(TargetFiles) |-> CatalogOf(files, path)],
       targetFiles)

\* C10: when updateLocaleFiles completes, each target file holds the catalog
\* that reconciling the source catalog with the file's previous content makes
\* under the options given, the entry returned for it reports the number of
\* keys of that catalog, and the targets are read and written one after
\* another in list order
C10_BatchUpdate ==
  (call.op = "updateLocaleFiles" /\ call.pc = "return")
  => LET n == Len(call.targetFiles)
         After(i) == ReconciledFiles(call.before, SubSeq(call.targetFiles, 1, i),
                                     call.options)
     IN  /\ \A path \in Range(call.targetFiles) :
              /\ path \in DOMAIN fs.files
              /\ JSONParse(fs.files[path]).ok
              /\ AsMap(CatalogOf(fs.files, path)) = AsMap(After(n)[path])
              /\ \A e \in AsMap(CatalogOf(fs.files, path)) : e[2].t = "string"
         /\ Len(call.results) = n
         /\ \A i \in 1..n :
              call.results[i] = [file |-> call.targetFiles[i],
                                 keys |-> Len(After(i)[call.targetFiles[i]])]
         /\ Len(call.log) = 2 * n
         /\ \A i \in 1..n :
              /\ call.log[2 * i - 1] = <<"read", call.targetFiles[i]>>
              /\ call.log[2 * i] = <<"write", call.targetFiles[i]>>

(***************************************************************************)
(* Properties of the call-site walker and of the built-in extractors.      *)
(***************************************************************************)
\* the callees that resolve to one of the default function names
Qualifying(node) ==
  node.callee \in {Identifier(S_t), Identifier(S_dollar_t), MemberExpression(Identifier(S_t))}

\* extract or extractFromTypescript has been called, with the default
\* function names, on a text that both parsers accept and that holds one
\* call, to a target function
BuiltInOfOneCall ==
  /\ call # NoCall
  /\ call.op \in {"extract", "extractFromTypescript"}
  /\ input.code.js = "ok"
  /\ input.code.ts = "ok"
  /\ call.options.functionNames = Undefined
  /\ Len(input.code.calls) = 1
  /\ Qualifying(input.code.calls[1])

\* the arguments of that call
Arguments == input.code.calls[1].arguments

\* the keys of the items returned
ReturnedKeys == [i \in 1..Len(call.ret.value) |-> call.ret.value[i].key]

\* the values of the branches of a ternary that are string literals, the
\* consequent first
LiteralBranches(arg) ==
  (IF arg.consequent.type = "StringLiteral" THEN <<arg.consequent.value>> ELSE <<>>)
  \o (IF arg.alternate.type = "StringLiteral" THEN <<arg.alternate.value>> ELSE <<>>)

TernaryFirst ==
  /\ BuiltInOfOneCall
  /\ Arguments # <<>>
  /\ Arguments[1].type = "ConditionalExpression"

\* C16, as the code has it: a qualifying call whose first argument is a
\* ternary yields one item for each branch that is a string literal, the
\* consequent first: two items when both branches are, one when exactly one
\* is, none when neither is
C16_TernaryBranches ==
  TernaryFirst => /\ call.ret.kind = "return"
                  /\ ReturnedKeys = LiteralBranches(Arguments[1])

\* a ternary first argument with exactly one literal branch has been extracted
C16_Witness ==
  /\ TernaryFirst
  /\ Len(LiteralBranches(Arguments[1])) = 1
  /\ Len(call.ret.value) = 1

\* C16, as stated: a qualifying call whose first argument is a ternary yields
\* exactly two items, one per branch, when both branches are string literals,
\* and no item when either branch is not a literal
C16_TernaryBothOrNone ==
  TernaryFirst => /\ call.ret.kind = "return"
                  /\ IF Len(LiteralBranches(Arguments[1])) = 2
                     THEN ReturnedKeys = LiteralBranches(Arguments[1])
                     ELSE call.ret.value = <<>>

\* a first argument that is a string literal or a template literal without
\* interpolation
StaticFirst ==
  /\ Arguments # <<>>
  /\ \/ Arguments[1].type = "StringLiteral"
     \/ Arguments[1].type = "TemplateLiteral" /\ Arguments[1].expressions = <<>>

\* C17: ternary first arguments aside, a call to a target function yields an
\* item if and only if its argument at position 0 is a string literal or a
\* template literal without interpolation, and then exactly one item, whose
\* key is the text of that argument; otherwise it yields no item, whatever
\* the later arguments are
C17_FirstArgumentDecides ==
  (BuiltInOfOneCall /\ ~TernaryFirst)
  => /\ call.ret.kind = "return"
     /\ ReturnedKeys =
          IF StaticFirst
          THEN <<IF Arguments[1].type = "StringLiteral" THEN Arguments[1].value
                 ELSE Arguments[1].quasis[1].value.raw>>
          ELSE <<>>

\* C18: every item extract, extractFromTypescript, extractFromTemplate or a
\* regex fallback produces has hasParams true if and only if its params are
\* not empty, if and only if its key holds at least one {name} token
C18_ParamsInvariant ==
  (/\ call # NoCall
   /\ call.op \in {"extract", "extractFromTypescript", "extractFromTemplate"}
   /\ call.ret.kind = "return")
  => \A i \in 1..Len(call.ret.value) :
       /\ HasParamsOf(call.ret.value[i]) <=> (ParamsOrEmpty(call.ret.value[i]) # <<>>)
       /\ HasParamsOf(call.ret.value[i]) <=> hasParams(call.ret.value[i].key)

\* the values property of an object literal that is an object literal with
\* at least one property; <<>> when the object has none
ValuesOf(arg) ==
  LET found == {i \in 1..Len(arg.properties) :
                  /\ arg.properties[i].type = "ObjectProperty"
                  /\ arg.properties[i].key = Identifier(S_values)
                  /\ arg.properties[i].value.type = "ObjectExpression"
                  /\ arg.properties[i].value.properties # <<>>}
  IN  IF found = {} THEN <<>>
      ELSE arg.properties[CHOOSE i \in found : TRUE].value.properties

\* C19: in extract and in extractFromTypescript alike, when the second
\* argument of a qualifying call is an object literal whose values property is
\* an object literal with at least one property, the item has hasParams true
\* and as params the property names of that values object in declaration
\* order, so that the two extractors give the same params
C19_ValuesParams ==
  (/\ BuiltInOfOneCall
   /\ Len(Arguments) = 2
   /\ Arguments[1].type = "StringLiteral"
   /\ Arguments[2].type = "ObjectExpression"
   /\ ValuesOf(Arguments[2]) # <<>>
   /\ \A i \in 1..Len(ValuesOf(Arguments[2])) :
        ValuesOf(Arguments[2])[i].key.type = "Identifier")
  => /\ call.ret.kind = "return"
     /\ Len(call.ret.value) = 1
     /\ HasParamsOf(call.ret.value[1])
     /\ ParamsOrEmpty(call.ret.value[1]) =
          [i \in 1..Len(ValuesOf(Arguments[2])) |-> ValuesOf(Arguments[2])[i].key.name]

(***************************************************************************)
(* Properties of the plugin registry and of extractFromFile.               *)
(***************************************************************************)
\* the reference list after a registration: the entry of that name replaced
\* where it is, or else the plugin added at the end
ReferenceRegister(list, plugin) ==
  IF \E i \in 1..Len(list) : list[i].name = plugin.name
  THEN [i \in 1..Len(list) |-> IF list[i].name = plugin.name THEN plugin ELSE list[i]]
  ELSE list \o <<plugin>>

\* the reference list after the removal of a name: the other entries, in order
ReferenceUnregister(list, name) == SelectSeq(list, LAMBDA p : p.name # name)

NoTwoOfOneName ==
  \A i, j \in 1..Len(registeredPlugins) :
     registeredPlugins[i].name = registeredPlugins[j].name => i = j

\* C11: registering a name that is absent adds the plugin at the end,
\* registering a name that is present replaces the entry where it is,
\* unregistering a name that is present removes that entry only and
\* unregistering an absent name changes nothing and raises nothing; so the
\* registry never holds two plugins of one name
C11_RegistryIsReferenceList ==
  /\ []NoTwoOfOneName
  /\ [][/\ (input' = input /\ call'.op = "registerPlugin")
           => registeredPlugins' = ReferenceRegister(registeredPlugins, call'.plugin)
        /\ (input' = input /\ call'.op = "unregisterPlugin")
           => registeredPlugins' = ReferenceUnregister(registeredPlugins, call'.name)
        /\ (input' = input /\ call'.op = "getRegisteredPlugins")
           => call'.ret = registeredPlugins /\ registeredPlugins' = registeredPlugins]_vars

\* a plugin has been registered under a name that was present, in the first
\* place of a registry of three
C11_Witness ==
  /\ call.op = "registerPlugin"
  /\ Len(registeredPlugins) = 3
  /\ registeredPlugins[1] = call.plugin
  /\ call.plugin.id = 3

\* the positions of the registered plugins that claim an extension and are
\* available
Candidates(ext, available) ==
  {i \in 1..Len(registeredPlugins) :
     ext \in Range(registeredPlugins[i].extensions) /\ registeredPlugins[i].id \in available}

\* what extractFromFile is to return for a file that can be read
Delegated(filePath, options, content, available) ==
  LET ext == extname(filePath)
      first == CHOOSE i \in Candidates(ext, available) :
                 \A j \in Candidates(ext, available) : i <= j
  IN  IF Candidates(ext, available) # {}
      THEN PluginExtract(registeredPlugins[first], content, filePath)
      ELSE IF ext \in {E_ts, E_tsx} THEN extractFromTypescript(content, filePath, options)
      ELSE IF ext \in {E_js, E_jsx, E_mjs, E_cjs} THEN extract(content, filePath, options)
      ELSE [kind |-> "return", value |-> <<>>]

\* C12: extractFromFile delegates to the earliest registered plugin whose
\* extensions hold the extension of the file and whose isAvailable() returns
\* true at that moment, also for the extensions of JavaScript and TypeScript,
\* and skips a plugin that is not available; without such a plugin it uses
\* the TypeScript extraction for .ts and .tsx, the JavaScript extraction for
\* .js, .jsx, .mjs and .cjs, and returns no item for any other extension
C12_Dispatch ==
  [][(PendingOf(call) # NoCall /\ PendingOf(call') = NoCall /\ call'.op = "extractFromFile")
     => call'.ret = Delegated(call'.filePath, call'.options, fs.files[call'.filePath],
                              input.available)]_vars

\* a .ts file has been extracted by the second registered plugin, the first
\* one claiming .ts while it is not available
C12_Witness ==
  /\ call.op = "extractFromFile"
  /\ PendingOf(call) = NoCall
  /\ call.filePath = FileOf(E_ts)
  /\ Len(registeredPlugins) >= 2
  /\ E_ts \in Range(registeredPlugins[1].extensions)
  /\ registeredPlugins[1].id \notin input.available
  /\ call.ret = PluginExtract(registeredPlugins[2], TypedCode, call.filePath)

(***************************************************************************)
(* Properties of extractFromDirectory and of mergeResults.                 *)
(***************************************************************************)
\* the items of the files that did not fail, in the order of the files
ItemsOfSettled(settled) ==
  Fold(LAMBDA items, results :
         IF results.kind = "return" THEN items \o results.value ELSE items,
       <<>>, settled)

\* C13: whatever files are enumerated and whichever of them fail to be read
\* or parsed, extractFromDirectory completes without raising and returns the
\* items of the files that did not fail, in enumeration order
C13_FailuresAreSkipped ==
  (call # NoCall /\ call.op = "extractFromDirectory")
  => /\ call.pc # "throw"
     /\ call.allResults = ItemsOfSettled(call.settled)
     /\ call.pc = "return" => Len(call.settled) = Len(call.files)

\* extractFromDirectory has returned the items of a file that follows a file
\* that failed
C13_Witness ==
  /\ call # NoCall
  /\ call.op = "extractFromDirectory"
  /\ call.pc = "return"
  /\ Len(call.files) >= 2
  /\ call.settled[1].kind = "throw"
  /\ call.settled[2].kind = "return"
  /\ call.allResults # <<>>

\* C14: the progress callback is called once for every enumerated file, in
\* enumeration order, the i-th call reporting current = i and total = the
\* number of enumerated files, also when the extraction of some files fails
C14_ProgressPerFile ==
  (/\ call # NoCall
   /\ call.op = "extractFromDirectory"
   /\ call.pc = "return"
   /\ call.options.onProgress)
  => /\ Len(call.progress) = Len(call.files)
     /\ \A i \in 1..Len(call.progress) :
          call.progress[i] = [current |-> i, total |-> Len(call.files),
                              file |-> call.files[i]]

\* C15: when include is a list of patterns, every file that matches at least
\* one of them and no exclude pattern is processed
C15_EveryIncludePattern ==
  (/\ call # NoCall
   /\ call.op = "extractFromDirectory"
   /\ call.pc = "return"
   /\ call.options.include # Undefined
   /\ call.options.include.t = "array")
  => LET exclude == IF call.options.exclude = Undefined THEN DefaultExclude
                    ELSE call.options.exclude.v
     IN  \A path \in DOMAIN fs.files :
           (/\ \E k \in 1..Len(call.options.include.v) :
                 Matches(call.options.include.v[k], path)
            /\ \A k \in 1..Len(exclude) : ~Matches(exclude[k], path))
           => \E i \in 1..Len(call.settled) : call.files[i] = path

\* the positions of the items of a key in the input
PositionsOf(results, key) == {i \in 1..Len(results) : results[i].key = key}

\* the occurrences of a key: file, line and column of its items, in input order
OccurrencesOf(results, key) ==
  Fold(LAMBDA occurrences, item :
         IF item.key = key
         THEN Append(occurrences,
                     [file |-> item.file, line |-> item.line, column |-> item.column])
         ELSE occurrences,
       <<>>, results)

\* C20: mergeResults returns one merged item for every distinct key of the
\* input; its occurrences are the (file, line, column) of the input items of
\* that key, in input order, so that the occurrence counts add up to the
\* length of the input; the merged items come in the order in which their
\* keys first occur
C20_OnePerKey ==
  (call # NoCall /\ call.op = "mergeResults")
  => /\ {call.ret[i].key : i \in 1..Len(call.ret)} =
          {input.results[i].key : i \in 1..Len(input.results)}
     /\ \A i, j \in 1..Len(call.ret) : call.ret[i].key = call.ret[j].key => i = j
     /\ \A i \in 1..Len(call.ret) :
          call.ret[i].occurrences = OccurrencesOf(input.results, call.ret[i].key)
     /\ Fold(LAMBDA sum, merged : sum + Len(merged.occurrences), 0, call.ret)
          = Len(input.results)
     /\ \A i, j \in 1..Len(call.ret) :
          i < j => \E m \in PositionsOf(input.results, call.ret[i].key) :
                     \A n \in PositionsOf(input.results, call.ret[j].key) : m < n

\* three items of two keys have been merged, the second key between the two
\* items of the first
C20_Witness ==
  /\ call # NoCall
  /\ call.op = "mergeResults"
  /\ Len(input.results) = 3
  /\ input.results[1].key = input.results[3].key
  /\ input.results[2].key # input.results[1].key
  /\ Len(call.ret) = 2
  /\ Len(call.ret[1].occurrences) = 2

\* the positions of the items of a key whose hasParams is true
WithParamsOf(results, key) ==
  {i \in PositionsOf(results, key) : HasParamsOf(results[i])}

\* C21: for each key, the hasParams and params of the merged item are those
\* of the first input item of that key whose hasParams is true; they are
\* false and the empty list only when no input item of that key has hasParams
\* true
C21_FirstWithParams ==
  (call # NoCall /\ call.op = "mergeResults")
  => \A i \in 1..Len(call.ret) :
       LET having == WithParamsOf(input.results, call.ret[i].key)
       IN  IF having = {}
           THEN call.ret[i].hasParams = FALSE /\ call.ret[i].params = <<>>
           ELSE LET first == CHOOSE m \in having : \A n \in having : m <= n
                IN  /\ call.ret[i].hasParams = TRUE
                    /\ call.ret[i].params = input.results[first].params

\* what extract returns from the syntax tree of a text
TreeItems(code, file, functionNames) ==
  LET OfCalls(calls) ==
        IF calls.kind = "return"
        THEN [kind |-> "return", value |-> ItemsOf(calls.value, file, extractItem)]
        ELSE calls
  IN  OfCalls(extractFromAST([type |-> "File", calls |-> code.calls], functionNames))

\* C22: extract has three outcomes: the items of the syntax tree when the
\* tolerant parse reports no diagnostics; the items of the pattern-based
\* fallback when the parse reports diagnostics or throws and fallbackToRegex
\* is set; an exception, and no items, when the parse reports diagnostics or
\* throws and fallbackToRegex is not set
C22_ThreeOutcomes ==
  (call # NoCall /\ call.op = "extract")
  => /\ input.code.js = "ok"
          => /\ call.ret.kind = "return"
             /\ call.ret = TreeItems(input.code, F_a_js, call.options.functionNames)
     /\ (input.code.js \in {"errors", "throws"} /\ call.options.fallbackToRegex)
          => call.ret = [kind |-> "return", value |-> extractWithRegex(input.code, F_a_js)]
     /\ (input.code.js \in {"errors", "throws"} /\ ~call.options.fallbackToRegex)
          => call.ret.kind = "throw"

\* C26 as stated: whenever the TypeScript parse fails, extractFromTypescript
\* returns normally and the items it returns are those of the pattern-based
\* fallback extractor
C26_RegexOnParseFailure ==
  (call # NoCall /\ call.op = "extractFromTypescript" /\ input.code.ts = "throws")
  => call.ret = [kind |-> "return", value |-> extractWithRegex(input.code, F_a_js)]

\* C26, amended: whenever the TypeScript parse fails, extractFromTypescript
\* returns normally; the items are those of the JavaScript syntax tree when
\* the tolerant JavaScript parse reports no diagnostics and the walk of the
\* tree does not fail, and those of the pattern-based fallback extractor
\* otherwise
C26_JavaScriptOnParseFailure ==
  (call # NoCall /\ call.op = "extractFromTypescript" /\ input.code.ts = "throws")
  => LET tree == TreeItems(input.code, F_a_js, call.options.functionNames)
     IN  /\ call.ret.kind = "return"
         /\ call.ret.value = IF input.code.js = "ok" /\ tree.kind = "return"
                             THEN tree.value
                             ELSE extractWithRegex(input.code, F_a_js)

\* the TypeScript parse of a text has failed with fallbackToRegex unset, the
\* JavaScript parse of the text has failed too, and the call has returned the
\* item the patterns find
C26_Witness ==
  /\ call # NoCall
  /\ call.op = "extractFromTypescript"
  /\ input.code.ts = "throws"
  /\ input.code.js = "throws"
  /\ ~call.options.fallbackToRegex
  /\ call.ret.kind = "return"
  /\ Len(call.ret.value) = 1
  /\ input.code.calls # <<>>

\* the number of markers a value starts with
RECURSIVE Markers(_)
Markers(value) ==
  IF CarriesMarker(value)
  THEN 1 + Markers(Str(SubSeq(value.v, Len(PARAM_MISMATCH) + 1, Len(value.v))))
  ELSE 0

\* the value of a key before the first application (0) and after the i-th
ValueAfter(i, key) ==
  Get(heap[IF i = 0 THEN input.target ELSE call.results[i]], key)

\* C25: the parameter-mismatch marking is not idempotent: updateLocale with
\* validateParams, applied again to a catalog in which an entry carries the
\* marker, prepends one more marker, so that after n applications a
\* mismatching entry carries n markers and its value has changed every time
C25_MarkersAccumulate ==
  (call.op = "updateLocaleOnResult" /\ call.options.validateParams)
  => \A key \in Range(OwnKeys(heap[input.source])) :
       CarriesMarker(ValueAfter(1, key))
       => /\ Markers(ValueAfter(Len(call.results), key)) = Len(call.results)
          /\ \A i \in 1..Len(call.results) :
               /\ ValueAfter(i, key) =
                    Str(PARAM_MISMATCH \o ToStringJS(ValueAfter(i - 1, key)))
               /\ ValueAfter(i, key) # ValueAfter(i - 1, key)

\* updateLocale with validateParams has been applied MaxApplications times
\* and an entry carries as many markers
C25_Witness ==
  /\ call.op = "updateLocaleOnResult"
  /\ call.options.validateParams
  /\ Len(call.results) = MaxApplications
  /\ \E key \in Range(OwnKeys(heap[input.source])) :
       Markers(ValueAfter(MaxApplications, key)) = MaxApplications

\* the 1-based line and column of the place a text before it ends at
OneBased(before) ==
  LET breaks == {i \in 1..Len(before) : before[i] = "\n"}
      sinceBreak == {i \in 1..Len(before) : \A j \in i..Len(before) : before[j] # "\n"}
  IN  [line |-> 1 + Cardinality(breaks), column |-> 1 + Cardinality(sinceBreak)]

\* C24: every item reports the 1-based line and the 1-based column of the
\* start of its call: on the syntax-tree path, where Babel gives the start of
\* the call as a 1-based line and a 0-based column, and on the pattern path,
\* where the start is the index of the match
C24_OneBasedPosition ==
  (/\ call # NoCall
   /\ call.op = "extract"
   /\ call.ret.kind = "return")
  => IF input.code.js = "ok"
     THEN Len(input.code.calls) = 1
          => \A i \in 1..Len(call.ret.value) :
               /\ call.ret.value[i].line = input.code.calls[1].loc.start.line
               /\ call.ret.value[i].column = input.code.calls[1].loc.start.column + 1
     ELSE call.options.fallbackToRegex
          => /\ Len(call.ret.value) = Len(input.code.matches)
             /\ \A i \in 1..Len(call.ret.value) :
                  /\ call.ret.value[i].line = OneBased(input.code.matches[i].before).line
                  /\ call.ret.value[i].column = OneBased(input.code.matches[i].before).column

\* C27: a pattern-based extraction call returns each distinct key at most
\* once, with the first entry found: the fallback of extract and of
\* extractFromTypescript, and extractFromTemplate, which lists what
\* parseTemplate returns
C27_EachKeyOnce ==
  (/\ call # NoCall
   /\ call.ret.kind = "return"
   /\ \/ call.op = "extractFromTemplate"
      \/ /\ call.op \in {"extract", "extractFromTypescript"}
         /\ call.ret.value = extractWithRegex(input.code, F_a_js))
  => \A i, j \in 1..Len(call.ret.value) :
       call.ret.value[i].key = call.ret.value[j].key => i = j

\* the places of the calls of parseJavaScript made so far with the cache
CachedCalls(log) ==
  {i \in 1..Len(log) : log[i].op = "parseJavaScript" /\ log[i].options.cache}

\* no clearParseCache between two places of the log
NoClearBetween(log, i, j) ==
  \A k \in (i + 1)..(j - 1) : log[k].op # "clearParseCache"

\* C28: two parseJavaScript calls with the cache, on the same text with the
\* same options and no clearParseCache between them, return the identical
\* object (or both raise), whatever errorRecovery is and whatever the text;
\* after a
\* clearParseCache the next such call returns another object; a call without
\* the cache leaves the cache as it is and returns an object no earlier call
\* has returned or cached
C28_CacheIdentity ==
  LET log == LogOf(call)
  IN  /\ \A i, j \in CachedCalls(log) :
           (i < j /\ log[i].options = log[j].options)
           => IF NoClearBetween(log, i, j)
              THEN log[j].ret = log[i].ret
              ELSE log[j].ret.kind = "return" => log[j].ret # log[i].ret
      /\ \A j \in 1..Len(log) :
           (log[j].op = "parseJavaScript" /\ ~log[j].options.cache)
           => /\ log[j].after = log[j].before
              /\ log[j].ret.kind = "return" => log[j].ret.value.ref > log[j].objects


(***************************************************************************)
(* Properties of the Svelte and the Vue plugin.                            *)
(***************************************************************************)

\* the dependency, the loaded module and the override isAvailable() of a plugin looks at
AvailabilityOf(op) ==
  IF op = "svelte.isAvailable"
  THEN [specifier |-> M_svelte_compiler, loaded |-> svelteCompiler,
        name |-> E_SVELTE_AVAILABLE]
  ELSE [specifier |-> M_vue_compiler, loaded |-> vueCompiler, name |-> E_VUE_AVAILABLE]

\* C23: isAvailable() of the Svelte and of the Vue plugin returns true when the
\* plugin's structural dependency can be loaded, and false when the dependency
\* cannot be resolved, has never been loaded and no availability override is set.
C23_AvailableIffLoadable ==
  call.op \in {"svelte.isAvailable", "vue.isAvailable"} =>
    LET a == AvailabilityOf(call.op) IN
      /\ a.specifier \in input.installed => call.ret = TRUE
      /\ (/\ a.specifier \notin input.installed
          /\ a.loaded = Null
          /\ a.name \notin input.env) => call.ret = FALSE

\* the items of a list that no earlier item of the list shares its key with
RECURSIVE FirstOfEachKeyFrom(_, _)
FirstOfEachKeyFrom(items, i) ==
  IF i > Len(items) THEN <<>>
  ELSE (IF \A j \in 1..(i - 1) : items[j].key # items[i].key
        THEN <<items[i]>> ELSE <<>>) \o FirstOfEachKeyFrom(items, i + 1)

\* no two items of a list have the same key
DistinctKeys(items) ==
  \A i, j \in 1..Len(items) : items[i].key = items[j].key => i = j

\* an extract call of a plugin that has returned or raised
ExtractDone ==
  /\ call.op \in {"svelte.extract", "vue.extract"}
  /\ call.pc = "return"

\* the structural parser of the plugin of the call is loaded
DependencyLoaded ==
  IF call.op = "svelte.extract"
  THEN svelteCompiler # Null /\ estreeWalker # Null
  ELSE vueCompiler # Null

\* the file of the call
FileOfExtract == IF call.op = "svelte.extract" THEN F_c_svelte ELSE F_c_vue

\* the structural path of the call is taken and gives at least one item
StructuralPath ==
  /\ DependencyLoaded
  /\ call.code.parse = "ok"
  /\ PluginItems(call.code.found, FileOfExtract) # <<>>

C30_LoadedAtMostOnce ==
  \A specifier \in Specifiers : ImportsOf(call)[specifier] <= 1

====
